---- MODULE Spec2Model ----
(***************************************************************************)
(* Model of the match aggregation and scoring engine of src/app.py:        *)
(* get_matches_today (source merger and match classifier),                 *)
(* convert_espn_to_standard_format (schema normalizer) and the importance  *)
(* scorer (calculate_match_importance, determine_tv_coverage,              *)
(* estimate_attendance, check_rivalry_factor).                             *)
(*                                                                         *)
(* Conventions.  Dates are day offsets from `today` (0 is today).  A       *)
(* timestamp string is <<day, hour, fmt>>, the empty sequence when the     *)
(* field is absent or null; fmt tells the two providers' renderings apart  *)
(* ("...T14:00:00Z" for football-data.org, "...T14:00Z" for ESPN).  Text   *)
(* that the code searches by substring (the venue) is a sequence of words. *)
(* Names with letters outside ASCII are written without the diacritics.    *)
(***************************************************************************)
EXTENDS Integers, Sequences, FiniteSets, TLC

VARIABLES
    pc,               \* position of the request in get_matches_today
    li,               \* index of the league the primary pass queries next
    days_offset,      \* date the extended search probes
    eli,              \* index of the league the extended search queries next
    all_matches,      \* the accumulated match list
    matches_found,
    extended_search,
    source_stats,
    queries,          \* log of the outbound calls issued, in order
    nonEmpty,         \* responses that carried events so far
    fb_matches,       \* the list the fallback provider returned (<<>> if none)
    allFailed,        \* no provider call of this request has succeeded yet
    today_matches,
    future_matches,
    response,         \* the value the handler returns, NoResponse until then
    m,                \* scorer: the match under evaluation
    enhanced,         \* scorer: the enhanced_info computed for m
    input,            \* analytics: the arguments of the function under study
    output            \* analytics: the value it returned, NoOutput until then

vars == <<pc, li, days_offset, eli, all_matches, matches_found, extended_search,
          source_stats, queries, nonEmpty, fb_matches, allFailed,
          today_matches, future_matches, response, m, enhanced, input, output>>

mergerVars == <<li, days_offset, eli, all_matches, matches_found, extended_search,
                source_stats, queries, nonEmpty, fb_matches, allFailed,
                today_matches, future_matches, response>>

scorerVars == <<m, enhanced>>

----------------------------------------------------------------------------
(* Generic helpers                                                          *)

Min(a, b) == IF a < b THEN a ELSE b

\* dict.get(key, default)
Get(d, k, default) == IF k \in DOMAIN d THEN d[k] ELSE default

\* Python's `needle in haystack` for text, at word granularity.
Contains(haystack, needle) ==
    \E i \in 0..(Len(haystack) - Len(needle)) :
        \A j \in 1..Len(needle) : haystack[i + j] = needle[j]

----------------------------------------------------------------------------
(* Importance scorer                                                        *)

competition_scores ==
    ("Premier League" :> 35) @@ ("UEFA Champions League" :> 40) @@
    ("FIFA World Cup" :> 50) @@ ("European Championship" :> 45) @@
    ("La Liga" :> 32) @@ ("Primera Division" :> 32) @@
    ("Bundesliga" :> 30) @@ ("Serie A" :> 30) @@ ("Ligue 1" :> 28) @@
    ("UEFA Europa League" :> 25) @@ ("UEFA Conference League" :> 20) @@
    ("Copa Libertadores" :> 25) @@ ("Eredivisie" :> 22) @@
    ("Primeira Liga" :> 20) @@ ("Pro League" :> 18) @@
    ("Austrian Bundesliga" :> 16) @@ ("Super Lig" :> 18) @@
    ("Scottish Premiership" :> 15) @@ ("Championship" :> 18) @@
    ("Segunda Division" :> 15) @@ ("2. Bundesliga" :> 16) @@
    ("Serie B" :> 14) @@ ("Brasileirao" :> 20) @@
    ("Liga Profesional" :> 18) @@ ("Copa del Rey" :> 15) @@
    ("FA Cup" :> 15) @@ ("DFB-Pokal" :> 12) @@ ("Coppa Italia" :> 12) @@
    ("Coupe de France" :> 10) @@ ("MLS" :> 12) @@ ("Liga MX" :> 14) @@
    ("J1 League" :> 10) @@ ("K League 1" :> 8) @@
    ("Campeonato Brasileiro Serie A" :> 20)

big_clubs ==
    {"Manchester United", "Manchester City", "Liverpool", "Arsenal", "Chelsea",
     "Tottenham", "Newcastle United", "Aston Villa", "West Ham United",
     "Real Madrid", "Barcelona", "Atletico Madrid", "Sevilla", "Real Betis",
     "Villarreal",
     "Bayern Munich", "Borussia Dortmund", "RB Leipzig", "Bayer Leverkusen",
     "Eintracht Frankfurt",
     "Juventus", "AC Milan", "Inter Milan", "AS Roma", "Napoli", "Lazio",
     "Atalanta", "Fiorentina",
     "Paris Saint-Germain", "Olympique Marseille", "Olympique Lyon", "AS Monaco",
     "Lille",
     "Ajax", "PSV Eindhoven", "Feyenoord", "AZ Alkmaar",
     "Benfica", "FC Porto", "Sporting CP", "SC Braga",
     "Club Brugge", "Anderlecht", "Standard Liege", "Genk",
     "Galatasaray", "Fenerbahce", "Besiktas", "Trabzonspor",
     "Celtic", "Rangers", "Aberdeen",
     "Flamengo", "Palmeiras", "Santos", "Sao Paulo", "Corinthians", "Gremio",
     "Internacional",
     "River Plate", "Boca Juniors", "Racing Club", "Independiente", "San Lorenzo"}

stage_boosts ==
    ("FINAL" :> 20) @@ ("SEMI_FINALS" :> 15) @@ ("QUARTER_FINALS" :> 10) @@
    ("ROUND_OF_16" :> 8) @@ ("LAST_16" :> 8) @@ ("PLAYOFFS" :> 5)

\* Mutant of TeamBoost: the second bonus replaces the first instead of adding to it.
TeamBoostElse(home_team, away_team) ==
    IF home_team \in big_clubs /\ away_team \in big_clubs THEN 10
    ELSE IF home_team \in big_clubs \/ away_team \in big_clubs THEN 15
    ELSE 0

\* The two consecutive `if`s on the big-club roster.
TeamBoost(home_team, away_team) ==
    (IF home_team \in big_clubs \/ away_team \in big_clubs THEN 15 ELSE 0)
    + (IF home_team \in big_clubs /\ away_team \in big_clubs THEN 10 ELSE 0)

StatusBoost(status) ==
    IF status \in {"LIVE", "IN_PLAY"} THEN 20
    ELSE IF status = "TIMED" THEN 5
    ELSE 0

calculate_match_importance(match) ==
    LET score0 == 0
        score1 == score0 + Get(competition_scores, match.competition, 10)
        score2 == score1 + TeamBoost(match.homeTeam, match.awayTeam)
        score3 == score2 + StatusBoost(match.status)
        score4 == score3 + Get(stage_boosts, match.stage, 0)
    IN  Min(score4, 100)

\* Mutant of TvTier: the first threshold is exclusive.
TvTierStrict(importance, competition) ==
    IF importance > 70 THEN "Prime Time TV"
    ELSE IF importance >= 50 THEN "Major Sports Networks"
    ELSE IF importance >= 30 THEN "Sports Channels"
    ELSE IF competition \in {"Premier League", "UEFA Champions League", "La Liga",
                             "Serie A", "Bundesliga"}
         THEN "League Broadcasting"
    ELSE "Streaming/Regional"

\* The if/elif chain of determine_tv_coverage.
TvTier(importance, competition) ==
    IF importance >= 70 THEN "Prime Time TV"
    ELSE IF importance >= 50 THEN "Major Sports Networks"
    ELSE IF importance >= 30 THEN "Sports Channels"
    ELSE IF competition \in {"Premier League", "UEFA Champions League", "La Liga",
                             "Serie A", "Bundesliga"}
         THEN "League Broadcasting"
    ELSE "Streaming/Regional"

determine_tv_coverage(match) ==
    TvTier(calculate_match_importance(match), match.competition)

large_stadiums ==
    {<<"Camp", "Nou">>, <<"Santiago", "Bernabeu">>, <<"Old", "Trafford">>,
     <<"Emirates", "Stadium">>, <<"Allianz", "Arena">>, <<"San", "Siro">>,
     <<"Anfield">>, <<"Etihad", "Stadium">>}

estimate_attendance(match) ==
    LET importance == calculate_match_importance(match)
        venue == Get(match, "venue", <<>>)
    IN  IF \E stadium \in large_stadiums : Contains(venue, stadium)
            THEN "Sold Out (70,000+)"
        ELSE IF importance >= 70 THEN "High (50,000+)"
        ELSE IF importance >= 50 THEN "Good (30,000+)"
        ELSE IF importance >= 30 THEN "Moderate (15,000+)"
        ELSE "Low (5,000+)"

\* The rivalry table in iteration order: <<team1, team2, rivalry_name>>.
rivalries ==
    << <<"Manchester United", "Liverpool", "Historic Rivalry">>,
       <<"Manchester United", "Manchester City", "Manchester Derby">>,
       <<"Arsenal", "Tottenham", "North London Derby">>,
       <<"Liverpool", "Everton", "Merseyside Derby">>,
       <<"Chelsea", "Arsenal", "London Derby">>,
       <<"Real Madrid", "Barcelona", "El Clasico">>,
       <<"Real Madrid", "Atletico Madrid", "Madrid Derby">>,
       <<"Barcelona", "Espanyol", "Barcelona Derby">>,
       <<"Juventus", "AC Milan", "Classic Rivalry">>,
       <<"Inter Milan", "AC Milan", "Derby della Madonnina">>,
       <<"AS Roma", "Lazio", "Derby della Capitale">>,
       <<"Bayern Munich", "Borussia Dortmund", "Der Klassiker">>,
       <<"Schalke 04", "Borussia Dortmund", "Revierderby">>,
       <<"Ajax", "Feyenoord", "De Klassieker">>,
       <<"Benfica", "FC Porto", "O Clasico">> >>

\* None
NoRivalry == "None"

\* Mutant of RivalryMatch: only the table's own home/away order is recognised.
RivalryMatchOneWay(entry, home_team, away_team) ==
    home_team = entry[1] /\ away_team = entry[2]

\* The condition of the lookup loop.
RivalryMatch(entry, home_team, away_team) ==
    \/ (home_team = entry[1] /\ away_team = entry[2])
    \/ (home_team = entry[2] /\ away_team = entry[1])

RECURSIVE RivalryScan(_, _, _)
RivalryScan(i, home_team, away_team) ==
    IF i > Len(rivalries) THEN NoRivalry
    ELSE IF RivalryMatch(rivalries[i], home_team, away_team) THEN rivalries[i][3]
    ELSE RivalryScan(i + 1, home_team, away_team)

check_rivalry_factor(match) == RivalryScan(1, match.homeTeam, match.awayTeam)

----------------------------------------------------------------------------
(* Schema normalizer                                                        *)

\* None, as returned by convert_espn_to_standard_format
None == [none |-> TRUE]

status_mapping ==
    ("STATUS_SCHEDULED" :> "SCHEDULED") @@ ("STATUS_IN_PROGRESS" :> "LIVE") @@
    ("STATUS_FINAL" :> "FINISHED") @@ ("STATUS_POSTPONED" :> "POSTPONED") @@
    ("STATUS_CANCELED" :> "CANCELLED")

\* The competitor a `for competitor in competitors` loop leaves in a variable
\* it assigns under `pick`: the last one picked, <<>> (None) if none is.
RECURSIVE LastPicked(_, _, _)
LastPicked(competitors, isHome, i) ==
    IF i = 0 THEN <<>>
    ELSE IF (Get(competitors[i], "homeAway", "") = "home") = isHome
         THEN <<competitors[i]>>
    ELSE LastPicked(competitors, isHome, i - 1)

\* competitor.get('score') as the provider's JSON carries it: a string of
\* digits, a number, or <<>> when the key is absent or null.
Text(digits) == [text |-> digits]

Num(n) == [num |-> n]

IsNum(score) == "num" \in DOMAIN score

\* Python's `<` on two strings of digits: character by character.
RECURSIVE TextLess(_, _)
TextLess(a, b) ==
    IF b = <<>> THEN FALSE
    ELSE IF a = <<>> THEN TRUE
    ELSE IF Head(a) # Head(b) THEN Head(a) < Head(b)
    ELSE TextLess(Tail(a), Tail(b))

\* `a > b` is defined between two numbers and between two strings; between
\* a string and a number it raises TypeError.
Comparable(a, b) == IsNum(a) = IsNum(b)

Greater(a, b) ==
    IF IsNum(a) THEN a.num > b.num ELSE TextLess(b.text, a.text)

\* The guard of "Determine winner if match is finished"
WinnerDue(mapped_status, home_score, away_score) ==
    mapped_status = "FINISHED" /\ home_score # <<>> /\ away_score # <<>>

Winner(mapped_status, home_score, away_score) ==
    IF WinnerDue(mapped_status, home_score, away_score)
    THEN IF Greater(home_score, away_score) THEN "HOME_TEAM"
         ELSE IF Greater(away_score, home_score) THEN "AWAY_TEAM"
         ELSE "DRAW"
    ELSE "None"

\* The default of venue_info.get('fullName', ...)
NoVenue == <<"Unknown", "Venue">>

\* An event whose `malformed` flag is set is one on which a statement of the
\* try block raises (the event is not an object, a sub-field that should be
\* an object or a list is null or of another type, `competitions` is an
\* empty list); the except clause turns every exception into None.
convert_espn_to_standard_format(espn_event, league_name) ==
    IF espn_event.malformed THEN None
    ELSE
    LET mapped_status == Get(status_mapping, Get(espn_event, "status", "SCHEDULED"),
                             "SCHEDULED")
        competitors   == Get(espn_event, "competitors", <<>>)
        home          == LastPicked(competitors, TRUE, Len(competitors))
        away          == LastPicked(competitors, FALSE, Len(competitors))
        withScore     == mapped_status = "FINISHED" \/ mapped_status = "LIVE"
        home_score    == IF withScore /\ home # <<>>
                         THEN Get(home[1], "score", <<>>) ELSE <<>>
        away_score    == IF withScore /\ away # <<>>
                         THEN Get(away[1], "score", <<>>) ELSE <<>>
    IN  IF Len(competitors) < 2 THEN None
        ELSE IF home = <<>> \/ away = <<>> THEN None
        ELSE IF /\ WinnerDue(mapped_status, home_score, away_score)
                /\ ~Comparable(home_score, away_score) THEN None
        ELSE [id          |-> <<"espn", Get(espn_event, "id", <<>>)>>,
              utcDate     |-> Get(espn_event, "date", <<>>),
              status      |-> mapped_status,
              stage       |-> "REGULAR_SEASON",
              homeTeam    |-> Get(home[1], "name", <<>>),
              awayTeam    |-> Get(away[1], "name", <<>>),
              score       |-> [winner   |-> Winner(mapped_status, home_score, away_score),
                               fullTime |-> [home |-> home_score, away |-> away_score]],
              competition |-> league_name,
              venue       |-> Get(espn_event, "venue", NoVenue)]

\* A loop that stops at the first event that does not normalize.
RECURSIVE ConvertAllAbort(_, _)
ConvertAllAbort(events, league_name) ==
    IF events = <<>> THEN <<>>
    ELSE LET match == convert_espn_to_standard_format(Head(events), league_name)
         IN  IF match = None THEN <<>>
             ELSE <<match>> \o ConvertAllAbort(Tail(events), league_name)

\* The `for event in events` loop of a scoreboard response: the matches it
\* appends, in order.
RECURSIVE ConvertAll(_, _)
ConvertAll(events, league_name) ==
    IF events = <<>> THEN <<>>
    ELSE LET match == convert_espn_to_standard_format(Head(events), league_name)
         IN  (IF match # None THEN <<match>> ELSE <<>>)
             \o ConvertAll(Tail(events), league_name)

----------------------------------------------------------------------------
(* Source merger: configuration                                             *)

\* datetime.now().date(), the origin of the day offsets
today == 0

\* The configured league table, in insertion order.
espn_leagues ==
    << [id |-> "eng.1", name |-> "Premier League"],
       [id |-> "esp.1", name |-> "La Liga"],
       [id |-> "ger.1", name |-> "Bundesliga"],
       [id |-> "ita.1", name |-> "Serie A"],
       [id |-> "fra.1", name |-> "Ligue 1"],
       [id |-> "uefa.champions", name |-> "Champions League"],
       [id |-> "uefa.europa", name |-> "Europa League"],
       [id |-> "uefa.europa.conf", name |-> "Conference League"],
       [id |-> "ned.1", name |-> "Eredivisie"],
       [id |-> "por.1", name |-> "Primeira Liga"],
       [id |-> "bel.1", name |-> "Pro League"],
       [id |-> "aut.1", name |-> "Austrian Bundesliga"],
       [id |-> "tur.1", name |-> "Super Lig"],
       [id |-> "sco.1", name |-> "Scottish Premiership"],
       [id |-> "eng.2", name |-> "Championship"],
       [id |-> "esp.2", name |-> "Segunda Division"],
       [id |-> "ger.2", name |-> "2. Bundesliga"],
       [id |-> "ita.2", name |-> "Serie B"],
       [id |-> "bra.1", name |-> "Brasileirao"],
       [id |-> "arg.1", name |-> "Liga Profesional"] >>

\* list(espn_leagues.items())[:5]
ExtendedLeagues == SubSeq(espn_leagues, 1, Min(5, Len(espn_leagues)))

\* range(-3, 8)
FirstOffset == -3
LastOffset == 7

\* Mutant of SkipDate: the search probes today again.
SkipDateNever(target_date) == FALSE

\* `if target_date == today: continue`
SkipDate(target_date) == target_date = today

\* The next value of days_offset the loop body runs for, LastOffset + 1 if none.
RECURSIVE NextOffset(_)
NextOffset(d) ==
    IF d > LastOffset THEN LastOffset + 1
    ELSE IF SkipDate(today + d) THEN NextOffset(d + 1)
    ELSE d

\* Mutant of ExtendedNeeded: the extended search is never skipped.
ExtendedAlways(found) == TRUE

\* `if not matches_found`
ExtendedNeeded(found) == ~found

\* Mutant of EnoughMatches: exactly 20 matches do not stop the search.
EnoughMatchesStrict(n) == n > 20

\* `if len(all_matches) >= 20: break`
EnoughMatches(n) == n >= 20

\* Mutant of FallbackNeeded: 5 matches still trigger the fallback.
FallbackNeededIncl(n) == n <= 5

\* `if len(all_matches) < 5`
FallbackNeeded(n) == n < 5

\* A range that starts today even after an extended search.
FallbackRangeFromToday(extended) ==
    IF extended THEN <<today, today + 7>> ELSE <<today, today + 1>>

\* fb_date_from, fb_date_to
FallbackRange(extended) ==
    IF ~extended THEN <<today, today + 1>> ELSE <<today - 3, today + 7>>

\* Mutant of PrimaryExcept: a failed league query is not caught in the loop.
PrimaryExceptRaise == "raise"

\* What the except clause of the primary loop does.
PrimaryExcept == "continue"

----------------------------------------------------------------------------
(* Source merger: what the providers may answer                             *)

\* Responses of one request that may carry events.
MaxNonEmpty == 2

\* Only the first MaxBusyLeague configured leagues have fixtures at all.
MaxBusyLeague == 2

\* The day offsets of the dates that have fixtures.
BusyOffsets == {-1, 0, 1, 2}

\* The scoreboard of league number i has events for the date of offset d.
Busy(i, d) == i <= MaxBusyLeague /\ d \in BusyOffsets

\* `limit` of an extended-search query
ExtendedLimit == 10

Competitor(side, name, score) == [homeAway |-> side, name |-> name, score |-> score]

Event(id, status, home, away, day, hour, venue) ==
    [malformed   |-> FALSE,
     id          |-> id,
     status      |-> status,
     competitors |-> <<home, away>>,
     date        |-> <<day, hour, 1>>,
     venue       |-> venue]

\* An event that is not the object the normalizer expects.
BrokenEvent == [malformed |-> TRUE]

\* An event listing a single participant.
OneSided(day) ==
    [Event(90, "STATUS_SCHEDULED", Competitor("home", "Getafe", <<>>),
           Competitor("away", "Everton", <<>>), day, 18, NoVenue)
       EXCEPT !.competitors = <<Competitor("home", "Getafe", <<>>)>>]

\* An event whose two participants are both tagged home.
BothHome(day) ==
    Event(91, "STATUS_SCHEDULED", Competitor("home", "Getafe", <<>>),
          Competitor("home", "Everton", <<>>), day, 18, NoVenue)

BadOnly(day) == <<OneSided(day)>>

Pair(day) ==
    << Event(1, "STATUS_SCHEDULED", Competitor("home", "Everton", <<>>),
             Competitor("away", "Getafe", <<>>), day, 17, NoVenue),
       BrokenEvent,
       Event(2, "STATUS_SCHEDULED", Competitor("away", "Getafe", <<>>),
             Competitor("home", "Espanyol", <<>>), day, 12, NoVenue) >>

Trio(day) ==
    << Event(3, "STATUS_FINAL", Competitor("home", "Liverpool", Text(<<1, 0>>)),
             Competitor("away", "Everton", Text(<<9>>)), day, 13, <<"Anfield">>),
       BothHome(day),
       Event(4, "STATUS_IN_PROGRESS", Competitor("home", "Real Madrid", Text(<<1>>)),
             Competitor("away", "Barcelona", Text(<<1>>)), day, 20,
             <<"Estadio", "Santiago", "Bernabeu">>),
       Event(5, "STATUS_DELAYED", Competitor("home", "Getafe", <<>>),
             Competitor("away", "Arsenal", <<>>), day + 1, 0, NoVenue) >>

Bulk(day) ==
    [i \in 1..ExtendedLimit |->
        Event(10 + i, "STATUS_SCHEDULED", Competitor("home", "Everton", <<>>),
              Competitor("away", "Getafe", <<>>), day, 10 + i, NoVenue)]

PrimaryLists(day) == {BadOnly(day), Pair(day), Trio(day)}

ExtendedLists(day) == {Pair(day), Trio(day), Bulk(day)}

\* A football-data.org match, already in the standard format.
FdMatch(id, comp, status, stage, home, away, date) ==
    [id          |-> <<"fd", id>>,
     utcDate     |-> date,
     status      |-> status,
     stage       |-> stage,
     homeTeam    |-> home,
     awayTeam    |-> away,
     score       |-> [winner   |-> "None",
                      fullTime |-> [home |-> <<>>, away |-> <<>>]],
     competition |-> comp]

SixFuture ==
    [i \in 1..6 |->
        FdMatch(i, IF i <= 3 THEN "Primera Division" ELSE "Eredivisie", "TIMED",
                "REGULAR_SEASON", IF i = 2 THEN "Ajax" ELSE "Getafe",
                IF i = 2 THEN "Feyenoord" ELSE "Espanyol",
                <<today + 2, 21 - 2 * i, 0>>)]

Mixed ==
    << FdMatch(11, "Championship", "FINISHED", "REGULAR_SEASON", "Everton", "Getafe",
               <<today - 1, 20, 0>>),
       FdMatch(12, "Championship", "TIMED", "REGULAR_SEASON", "Everton", "Getafe",
               <<today + 1, 15, 0>>),
       FdMatch(13, "Championship", "TIMED", "REGULAR_SEASON", "Espanyol", "Getafe",
               <<>>),
       FdMatch(14, "Championship", "TIMED", "REGULAR_SEASON", "Espanyol", "Getafe",
               <<today, 19, 0>>),
       FdMatch(15, "UEFA Champions League", "IN_PLAY", "FINAL", "Barcelona",
               "Real Madrid", <<today + 1, 19, 0>>),
       FdMatch(16, "Championship", "TIMED", "REGULAR_SEASON", "Everton", "Espanyol",
               <<today, 12, 0>>) >>

FbCatalogues == {<<>>, SixFuture, Mixed}

\* The matches of a catalogue the provider returns for dateFrom..dateTo.
InRange(catalogue, range) ==
    SelectSeq(catalogue,
              LAMBDA x : x.utcDate = <<>>
                         \/ (range[1] <= x.utcDate[1] /\ x.utcDate[1] <= range[2]))

----------------------------------------------------------------------------
(* Match classifier                                                         *)

\* datetime.fromisoformat(text.replace('Z', '+00:00')).date(): the day of a
\* timestamp, <<>> when the parse raises (the text is absent or null).
ParseDate(text) == IF text = <<>> THEN <<>> ELSE <<text[1]>>

\* match_date of one element of all_matches, <<>> when deriving it raises.
MatchDate(match) ==
    IF "date" \in DOMAIN match THEN ParseDate(match.date)
    ELSE IF "utcDate" \in DOMAIN match THEN ParseDate(match.utcDate)
    ELSE <<>>

enhanced_info(match, match_date) ==
    [importance_score    |-> calculate_match_importance(match),
     tv_coverage         |-> determine_tv_coverage(match),
     attendance_estimate |-> estimate_attendance(match),
     rivalry_factor      |-> check_rivalry_factor(match),
     match_date          |-> match_date,
     days_from_today     |-> match_date - today,
     source              |-> IF "date" \in DOMAIN match THEN "ESPN"
                             ELSE "football-data.org"]

\* {**match, 'enhanced_info': {...}}
Enhance(match, match_date) ==
    [enhanced_info |-> enhanced_info(match, match_date)] @@ match

\* Mutant of DropPast: matches of the past are kept.
DropPastNever(match_date) == FALSE

\* `if match_date < today: continue`
DropPast(match_date) == match_date < today

\* The `for match in all_matches` loop: the enhanced matches it appends to
\* today_matches (wantToday) or to future_matches, in order.
RECURSIVE Categorize(_, _)
Categorize(matches, wantToday) ==
    IF matches = <<>> THEN <<>>
    ELSE LET match == Head(matches)
             d     == MatchDate(match)
             rest  == Categorize(Tail(matches), wantToday)
         IN  IF d = <<>> THEN rest
             ELSE IF DropPast(d[1]) THEN rest
             ELSE IF (d[1] = today) = wantToday
                  THEN <<Enhance(match, d[1])>> \o rest
             ELSE rest

\* Python's `<` on two timestamp strings.
StrLess(a, b) == TextLess(a, b)

\* Mutant of KeyLess: the kickoff time is left out of the sort key.
KeyLessNoTime(x, y) ==
    LET kx == <<-x.enhanced_info.importance_score, x.enhanced_info.days_from_today>>
        ky == <<-y.enhanced_info.importance_score, y.enhanced_info.days_from_today>>
    IN  IF kx[1] # ky[1] THEN kx[1] < ky[1] ELSE kx[2] < ky[2]

\* Python's `<` on the sort key of two enhanced matches:
\* (-importance_score, days_from_today, x.get('utcDate', '')).
KeyLess(x, y) ==
    LET kx == <<-x.enhanced_info.importance_score, x.enhanced_info.days_from_today,
                Get(x, "utcDate", <<>>)>>
        ky == <<-y.enhanced_info.importance_score, y.enhanced_info.days_from_today,
                Get(y, "utcDate", <<>>)>>
    IN  IF kx[1] # ky[1] THEN kx[1] < ky[1]
        ELSE IF kx[2] # ky[2] THEN kx[2] < ky[2]
        ELSE StrLess(kx[3], ky[3])

\* x put into a sorted list after every element that does not come after it.
RECURSIVE Insert(_, _)
Insert(x, sorted) ==
    IF sorted = <<>> THEN <<x>>
    ELSE IF KeyLess(x, Head(sorted)) THEN <<x>> \o sorted
    ELSE <<Head(sorted)>> \o Insert(x, Tail(sorted))

\* list.sort(key=...): a stable sort.
RECURSIVE Sort(_)
Sort(list) ==
    IF list = <<>> THEN <<>>
    ELSE Insert(list[Len(list)], Sort(SubSeq(list, 1, Len(list) - 1)))

\* Mutant of Featured: one more match is featured.
FeaturedSeven(final_matches) ==
    Sort(IF Len(final_matches) >= 7 THEN SubSeq(final_matches, 1, 7) ELSE final_matches)

\* final_matches[:6] if len(final_matches) >= 6 else final_matches, sorted again.
Featured(final_matches) ==
    Sort(IF Len(final_matches) >= 6 THEN SubSeq(final_matches, 1, 6) ELSE final_matches)

----------------------------------------------------------------------------
(* get_matches_today                                                        *)

NoResponse == [kind |-> "none"]

\* jsonify({'error': str(e)}), 500
Error500 == [kind |-> "error", status |-> 500]

NoMatch == [none |-> TRUE]

NoEnhanced == [none |-> TRUE]

NoInput == [none |-> TRUE]

NoOutput == [none |-> TRUE]

\* How a provider call can end: an exception (network error, timeout, a body
\* that is not the expected JSON), a status other than 200, or 200 with no
\* event or, where the scoreboard has events, with one of `lists`.
Outcomes(lists, busy) ==
    {[kind |-> "error", events |-> <<>>], [kind |-> "non200", events |-> <<>>],
     [kind |-> "ok", events |-> <<>>]}
    \cup (IF busy /\ nonEmpty < MaxNonEmpty
          THEN {[kind |-> "ok", events |-> l] : l \in lists}
          ELSE {})

Query(provider, league, range) ==
    [provider |-> provider, league |-> league, dateFrom |-> range[1],
     dateTo |-> range[2]]

\* Where the request continues once the primary provider has been read.
AfterFetch(matches) ==
    IF FallbackNeeded(Len(matches)) THEN "fallback" ELSE "classify"

Init ==
    /\ pc = "primary"
    /\ li = 1
    /\ days_offset = FirstOffset
    /\ eli = 1
    /\ all_matches = <<>>
    /\ matches_found = FALSE
    /\ extended_search = FALSE
    /\ source_stats = [espn_api |-> 0, football_data_fallback |-> 0, total_unique |-> 0]
    /\ queries = <<>>
    /\ nonEmpty = 0
    /\ fb_matches = <<>>
    /\ allFailed = TRUE
    /\ today_matches = <<>>
    /\ future_matches = <<>>
    /\ response = NoResponse
    /\ m = NoMatch
    /\ enhanced = NoEnhanced
    /\ input = NoInput
    /\ output = NoOutput

\* One iteration of the primary loop: the scoreboard query of league li for
\* today and the handling of its answer; after the last league, the
\* statements up to the next provider call.
PrimaryQuery ==
    /\ pc = "primary"
    /\ \E outcome \in Outcomes(PrimaryLists(today), Busy(li, 0)) :
        LET league  == espn_leagues[li]
            failed  == outcome.kind # "ok"
            new     == ConvertAll(outcome.events, league.name)
            matches == all_matches \o new
            found   == matches_found \/ new # <<>>
            raised  == outcome.kind = "error" /\ PrimaryExcept = "raise"
            last    == li = Len(espn_leagues)
            first   == NextOffset(FirstOffset)
        IN  /\ queries' = Append(queries, Query("espn", league.id, <<today, today>>))
            /\ allFailed' = (allFailed /\ failed)
            /\ nonEmpty' = IF outcome.events # <<>> THEN nonEmpty + 1 ELSE nonEmpty
            /\ all_matches' = matches
            /\ matches_found' = found
            /\ li' = li + 1
            /\ IF raised
               THEN /\ pc' = "done"
                    /\ response' = Error500
                    /\ UNCHANGED <<source_stats, extended_search, days_offset, eli>>
               ELSE IF ~last
               THEN UNCHANGED <<pc, response, source_stats, extended_search,
                                days_offset, eli>>
               ELSE /\ source_stats' = [source_stats EXCEPT !.espn_api = Len(matches)]
                    /\ extended_search' = ExtendedNeeded(found)
                    /\ days_offset' = first
                    /\ eli' = 1
                    /\ pc' = IF ExtendedNeeded(found) /\ first <= LastOffset
                             THEN "extended" ELSE AfterFetch(matches)
                    /\ UNCHANGED response
    /\ UNCHANGED <<fb_matches, today_matches, future_matches, m, enhanced, input, output>>

\* One iteration of the inner loop of the extended search: the scoreboard
\* query of priority league eli for today + days_offset; after the last
\* league of a date, the break test and the step to the next date.
ExtendedQuery ==
    /\ pc = "extended"
    /\ \E outcome \in Outcomes(ExtendedLists(today + days_offset),
                             Busy(eli, days_offset)) :
        LET league      == ExtendedLeagues[eli]
            target_date == today + days_offset
            failed      == outcome.kind # "ok"
            new         == ConvertAll(outcome.events, league.name)
            matches     == all_matches \o new
            endOfDate   == eli = Len(ExtendedLeagues)
            next        == NextOffset(days_offset + 1)
            finished    == endOfDate /\ (EnoughMatches(Len(matches)) \/ next > LastOffset)
        IN  /\ queries' = Append(queries,
                                 Query("espn", league.id, <<target_date, target_date>>))
            /\ allFailed' = (allFailed /\ failed)
            /\ nonEmpty' = IF outcome.events # <<>> THEN nonEmpty + 1 ELSE nonEmpty
            /\ all_matches' = matches
            /\ eli' = IF endOfDate THEN 1 ELSE eli + 1
            /\ days_offset' = IF endOfDate /\ ~finished THEN next ELSE days_offset
            /\ pc' = IF finished THEN AfterFetch(matches) ELSE "extended"
    /\ UNCHANGED <<li, matches_found, extended_search, source_stats, fb_matches,
                   today_matches, future_matches, response, m, enhanced, input, output>>

\* The single query of the fallback provider.
FallbackQuery ==
    /\ pc = "fallback"
    /\ \E kind \in {"error", "non200", "ok"}, catalogue \in FbCatalogues :
        LET range  == FallbackRange(extended_search)
            failed == kind # "ok"
            got    == IF failed THEN <<>> ELSE InRange(catalogue, range)
        IN  /\ queries' = Append(queries, Query("football-data.org", "", range))
            /\ allFailed' = (allFailed /\ failed)
            /\ fb_matches' = got
            /\ all_matches' = all_matches \o got
            /\ source_stats' =
                 IF failed THEN source_stats
                 ELSE [source_stats EXCEPT !.football_data_fallback = Len(got)]
    /\ pc' = "classify"
    /\ UNCHANGED <<li, days_offset, eli, matches_found, extended_search, nonEmpty,
                   today_matches, future_matches, response, m, enhanced, input, output>>

\* "Process and enhance matches" up to the return of the handler.
Classify ==
    /\ pc = "classify"
    /\ LET todays == Categorize(all_matches, TRUE)
           future == Categorize(all_matches, FALSE)
           final  == Sort(todays \o future)
       IN  /\ today_matches' = todays
           /\ future_matches' = future
           /\ source_stats' = [source_stats EXCEPT !.total_unique = Len(todays \o future)]
           /\ response' = [kind             |-> "ok",
                           matches          |-> final,
                           featured_matches |-> Featured(final),
                           total_matches    |-> Len(final),
                           date             |-> today,
                           source_stats     |-> source_stats']
    /\ pc' = "done"
    /\ UNCHANGED <<li, days_offset, eli, all_matches, matches_found, extended_search,
                   queries, nonEmpty, fb_matches, allFailed, m, enhanced, input, output>>

Next == PrimaryQuery \/ ExtendedQuery \/ FallbackQuery \/ Classify

Spec == Init /\ [][Next]_vars

----------------------------------------------------------------------------
(* The scorer on its own: every match of TestMatches is enhanced once.      *)

TestCompetitions == DOMAIN competition_scores \cup {"Champions League", ""}

TestStatuses ==
    {"SCHEDULED", "TIMED", "LIVE", "IN_PLAY", "FINISHED", "POSTPONED", "CANCELLED"}

TestStages == DOMAIN stage_boosts \cup {"REGULAR_SEASON"}

TestTeams == {"Real Madrid", "Barcelona", "Everton", "Getafe"}

TestVenues == {<<>>, NoVenue, <<"Spotify", "Camp", "Nou">>}

TestMatches ==
    {[FdMatch(1, c, st, sg, h, a, <<today, 12, 0>>) EXCEPT !.id = <<"fd", 1>>]
        @@ [venue |-> v] :
        c \in TestCompetitions, st \in TestStatuses, sg \in TestStages,
        h \in TestTeams, a \in TestTeams, v \in TestVenues}

ScoreInit ==
    /\ pc = "score"
    /\ m \in TestMatches
    /\ enhanced = NoEnhanced
    /\ li = 1
    /\ days_offset = FirstOffset
    /\ eli = 1
    /\ all_matches = <<>>
    /\ matches_found = FALSE
    /\ extended_search = FALSE
    /\ source_stats = [espn_api |-> 0, football_data_fallback |-> 0, total_unique |-> 0]
    /\ queries = <<>>
    /\ nonEmpty = 0
    /\ fb_matches = <<>>
    /\ allFailed = TRUE
    /\ today_matches = <<>>
    /\ future_matches = <<>>
    /\ response = NoResponse
    /\ input = NoInput
    /\ output = NoOutput

\* The enhanced_info block the handler builds for m.
ScoreMatch ==
    /\ pc = "score"
    /\ enhanced' = enhanced_info(m, MatchDate(m)[1])
    /\ pc' = "scored"
    /\ UNCHANGED <<m, li, days_offset, eli, all_matches, matches_found,
                   extended_search, source_stats, queries, nonEmpty, fb_matches,
                   allFailed, today_matches, future_matches, response,
                   input, output>>

ScoreNext == ScoreMatch

SpecScore == ScoreInit /\ [][ScoreNext]_vars

----------------------------------------------------------------------------
(* Claims about the scorer                                                  *)

BigSides(match) ==
    (IF match.homeTeam \in big_clubs THEN 1 ELSE 0)
    + (IF match.awayTeam \in big_clubs THEN 1 ELSE 0)

ClaimedScore(match) ==
    LET competition == IF match.competition \in DOMAIN competition_scores
                       THEN competition_scores[match.competition] ELSE 10
        oneBig      == IF BigSides(match) >= 1 THEN 15 ELSE 0
        bothBig     == IF BigSides(match) = 2 THEN 10 ELSE 0
        status      == CASE match.status \in {"LIVE", "IN_PLAY"} -> 20
                         [] match.status = "TIMED" -> 5
                         [] OTHER -> 0
        stage       == IF match.stage \in DOMAIN stage_boosts
                       THEN stage_boosts[match.stage] ELSE 0
        total       == competition + oneBig + bothBig + status + stage
    IN  IF total > 100 THEN 100 ELSE total

\* C8: the importance score of every match is min(100, competition points
\* (10 for a competition outside the tier table) + 15 if a side is a big club
\* + 10 more if both are + 20 if LIVE or IN_PLAY or 5 if TIMED + the stage
\* bonus); it is an integer of 0..100, and exactly 10 for an unknown
\* competition, no big club, status SCHEDULED and no listed stage.
C8_ImportanceFormula ==
    pc = "scored" =>
        /\ enhanced.importance_score = ClaimedScore(m)
        /\ enhanced.importance_score \in 0..100
        /\ (/\ m.competition \notin DOMAIN competition_scores
            /\ BigSides(m) = 0
            /\ m.status = "SCHEDULED"
            /\ m.stage \notin DOMAIN stage_boosts)
           => enhanced.importance_score = 10

\* A final between two big clubs, played live in the top competition: the sum
\* is 115 and the score is capped.
C8_Witness ==
    /\ pc = "scored"
    /\ m.competition = "FIFA World Cup"
    /\ BigSides(m) = 2
    /\ m.status = "LIVE"
    /\ m.stage = "FINAL"
    /\ enhanced.importance_score = 100

SwapSides(match) ==
    [match EXCEPT !.homeTeam = match.awayTeam, !.awayTeam = match.homeTeam]

\* C9: the rivalry lookup gives the same answer (the same label, or none) for
\* home=A, away=B as for home=B, away=A.
C9_RivalrySymmetric ==
    pc = "scored" => enhanced.rivalry_factor = check_rivalry_factor(SwapSides(m))

\* A rivalry found with the sides in the order opposite to the table's.
C9_Witness ==
    /\ pc = "scored"
    /\ m.homeTeam = "Barcelona"
    /\ m.awayTeam = "Real Madrid"
    /\ enhanced.rivalry_factor = "El Clasico"

HasMarqueeVenue(match) ==
    \E stadium \in large_stadiums : Contains(Get(match, "venue", <<>>), stadium)

\* C10: with s the importance score of the match, the TV tier is Prime Time TV
\* for s >= 70, Major Sports Networks for 50 <= s < 70, Sports Channels for
\* 30 <= s < 50 and a league-based tier below; without a marquee stadium in
\* the venue name the attendance tier is High, Good, Moderate, Low on the same
\* thresholds; s is the score calculate_match_importance gives the match.
C10_Tiers ==
    pc = "scored" =>
        LET s == enhanced.importance_score
        IN  /\ s = calculate_match_importance(m)
            /\ (s >= 70) => enhanced.tv_coverage = "Prime Time TV"
            /\ (50 <= s /\ s < 70) => enhanced.tv_coverage = "Major Sports Networks"
            /\ (30 <= s /\ s < 50) => enhanced.tv_coverage = "Sports Channels"
            /\ (s < 30) => enhanced.tv_coverage \in {"League Broadcasting",
                                                     "Streaming/Regional"}
            /\ ~HasMarqueeVenue(m) =>
                 /\ (s >= 70) => enhanced.attendance_estimate = "High (50,000+)"
                 /\ (50 <= s /\ s < 70) => enhanced.attendance_estimate = "Good (30,000+)"
                 /\ (30 <= s /\ s < 50)
                        => enhanced.attendance_estimate = "Moderate (15,000+)"
                 /\ (s < 30) => enhanced.attendance_estimate = "Low (5,000+)"

\* A match scoring exactly 70, in a venue that is no marquee stadium.
C10_Witness ==
    /\ pc = "scored"
    /\ enhanced.importance_score = 70
    /\ ~HasMarqueeVenue(m)
    /\ enhanced.tv_coverage = "Prime Time TV"
    /\ enhanced.attendance_estimate = "High (50,000+)"

----------------------------------------------------------------------------
(* Claims about get_matches_today                                           *)

Fetched == pc \in {"classify", "done"}

\* The calls to the primary provider for today, for another date, and the
\* calls to the fallback provider, each in the order issued.
PrimaryLog == SelectSeq(queries, LAMBDA q : q.provider = "espn" /\ q.dateFrom = today)

ExtendedLog == SelectSeq(queries, LAMBDA q : q.provider = "espn" /\ q.dateFrom # today)

FallbackLog == SelectSeq(queries, LAMBDA q : q.provider = "football-data.org")

\* The matches of a list that the normalizer produced (their id is espn_...).
EspnPart(matches) == SelectSeq(matches, LAMBDA x : x.id[1] = "espn")

\* The primary pass as the claims describe it: league i is call number i.
PrimaryPlan(n) == [i \in 1..n |-> Query("espn", espn_leagues[i].id, <<today, today>>)]

\* C1: the extended search is performed if and only if the primary pass
\* produced zero normalized matches, and it starts only after every league of
\* the primary pass has been queried.
C1_ExtendedIffNoPrimaryMatch ==
    LET primary  == PrimaryLog
        extended == ExtendedLog
    IN  /\ pc = "primary" => (~extended_search /\ extended = <<>>)
        /\ pc # "primary" =>
              /\ Len(primary) = Len(espn_leagues)
              /\ extended_search <=> (source_stats.espn_api = 0)
        /\ extended # <<>> =>
              /\ extended_search
              /\ SubSeq(queries, 1, Len(espn_leagues)) = primary
        /\ (Fetched \/ pc = "fallback") => (extended_search <=> extended # <<>>)

\* The primary pass received events, none of them normalized, and the
\* extended search is under way.
C1_Witness ==
    /\ pc = "extended"
    /\ nonEmpty > 0
    /\ all_matches = <<>>
    /\ ExtendedLog # <<>>

\* C2: the fallback provider is queried if and only if fewer than 5 matches
\* were accumulated by the primary pass and the extended search, at most once
\* and only after them, for [today, today+1] when the extended search did not
\* run and [today-3, today+7] when it did; its matches are appended unchanged
\* after all the matches of the primary provider.
C2_FallbackIffFewerThanFive ==
    LET fallback == FallbackLog
        espn     == EspnPart(all_matches)
    IN  /\ Len(fallback) <= 1
        /\ fallback # <<>> =>
              /\ Fetched
              /\ queries[Len(queries)] = fallback[1]
              /\ <<fallback[1].dateFrom, fallback[1].dateTo>> =
                    IF ExtendedLog = <<>> THEN <<today, today + 1>>
                    ELSE <<today - 3, today + 7>>
        /\ Fetched =>
              /\ fallback # <<>> <=> Len(espn) < 5
              /\ all_matches = espn \o fb_matches
        /\ ~Fetched => (fb_matches = <<>> /\ all_matches = espn)

\* The fallback answered after an extended search that had found matches.
C2_Witness ==
    /\ pc = "done"
    /\ ExtendedLog # <<>>
    /\ EspnPart(all_matches) # <<>>
    /\ fb_matches # <<>>
    /\ FallbackLog[1].dateFrom = today - 3

\* A call that brought no event: a failed call among them.
NoEventStep == queries' # queries /\ nonEmpty' = nonEmpty /\ pc # "fallback"

\* C3: the primary pass queries every configured league exactly once for
\* today whatever calls failed before; a failed call contributes no match,
\* and whatever provider calls fail the request ends with a result.
C3_FailuresSkipped ==
    /\ [](pc = "primary" => queries = PrimaryPlan(li - 1))
    /\ [](pc # "primary" =>
            /\ PrimaryLog = PrimaryPlan(Len(espn_leagues))
            /\ SubSeq(queries, 1, Len(espn_leagues)) = PrimaryLog)
    /\ [](allFailed => all_matches = <<>>)
    /\ [](pc = "done" => response.kind = "ok")
    /\ [][NoEventStep => all_matches' = all_matches]_vars

\* Every one of the 20 + 50 + 1 calls failed and the request ended with an
\* empty result.
C3_Witness ==
    /\ pc = "done"
    /\ allFailed
    /\ Len(queries) = Len(espn_leagues) + 50 + 1
    /\ response.kind = "ok"
    /\ response.matches = <<>>

\* The calls of the extended search: those to the primary provider after the
\* primary pass.
ExtendedPart ==
    LET espn == SelectSeq(queries, LAMBDA q : q.provider = "espn")
    IN  SubSeq(espn, Len(espn_leagues) + 1, Len(espn))

\* C4: the extended search probes today-3 .. today+7 in ascending order,
\* never today itself, queries only the first 5 configured leagues for each
\* probed date, and probes no further date once 20 or more matches have been
\* accumulated.
C4_ExtendedWindow ==
    LET ext == ExtendedPart
    IN  /\ \A i \in 1..Len(ext) :
              /\ ext[i].dateFrom \in ((today - 3)..(today + 7)) \ {today}
              /\ ext[i].dateTo = ext[i].dateFrom
              /\ ext[i].league = espn_leagues[((i - 1) % 5) + 1].id
              /\ i > 1 => ext[i - 1].dateFrom <= ext[i].dateFrom
        /\ (pc = "extended" /\ eli = 1) => Len(all_matches) < 20

\* The search stopped before the end of the window with 20 matches or more.
C4_Witness ==
    /\ pc = "done"
    /\ ExtendedPart # <<>>
    /\ ExtendedPart[Len(ExtendedPart)].dateFrom < today + 7
    /\ Len(all_matches) >= 20

\* C5: the returned `all` list (response key 'matches') equals
\* todays ++ future.
C5_AllIsTodaysThenFuture ==
    pc = "done" => response.matches = today_matches \o future_matches

\* The derived date of an element of the merged list, and of an enhanced one.
DateOf(match) == MatchDate(match)[1]

Elements(list) == {list[i] : i \in 1..Len(list)}

\* The merged match an enhanced match was made of.
Plain(x) == [k \in DOMAIN x \ {"enhanced_info"} |-> x[k]]

\* C6: no match dated before today is in the output; every element of todays
\* has date == today and days_from_today 0, every element of future has
\* date > today and days_from_today >= 1; no match is in both.
C6_Partition ==
    pc = "done" =>
        /\ \A x \in Elements(today_matches) :
              DateOf(x) = today /\ x.enhanced_info.days_from_today = 0
        /\ \A x \in Elements(future_matches) :
              DateOf(x) > today /\ x.enhanced_info.days_from_today >= 1
        /\ \A x \in Elements(all_matches) :
              (MatchDate(x) # <<>> /\ DateOf(x) < today) =>
                  \A y \in Elements(response.matches) \cup Elements(today_matches)
                           \cup Elements(future_matches) : Plain(y) # x
        /\ \A y \in Elements(response.matches) : DateOf(y) >= today
        /\ Elements(today_matches) \cap Elements(future_matches) = {}

\* The merged list held a match of the past, one of today and a later one.
C6_Witness ==
    /\ pc = "done"
    /\ \E x \in Elements(all_matches) : MatchDate(x) # <<>> /\ DateOf(x) < today
    /\ today_matches # <<>>
    /\ future_matches # <<>>

\* x does not come after y under (importance descending, days_from_today
\* ascending, kickoff timestamp string ascending).
InOrder(x, y) ==
    \/ x.enhanced_info.importance_score > y.enhanced_info.importance_score
    \/ /\ x.enhanced_info.importance_score = y.enhanced_info.importance_score
       /\ \/ x.enhanced_info.days_from_today < y.enhanced_info.days_from_today
          \/ /\ x.enhanced_info.days_from_today = y.enhanced_info.days_from_today
             /\ ~StrLess(y.utcDate, x.utcDate)

Ordered(list) == \A i, j \in 1..Len(list) : i < j => InOrder(list[i], list[j])

\* C7: `all` is sorted by (importance descending, days_from_today ascending,
\* kickoff timestamp ascending); `featured` is its first min(6, |all|)
\* elements and is sorted by the same key.
C7_Sorted ==
    pc = "done" =>
        /\ Ordered(response.matches)
        /\ Len(response.featured_matches) = Min(6, Len(response.matches))
        /\ response.featured_matches =
              SubSeq(response.matches, 1, Len(response.featured_matches))
        /\ Ordered(response.featured_matches)

\* More than 6 matches, two of them with equal importance and date that
\* arrived in descending order of kickoff time.
C7_Witness ==
    /\ pc = "done"
    /\ Len(response.matches) > 6
    /\ \E i, j \in 1..Len(today_matches \o future_matches) :
          LET x == (today_matches \o future_matches)[i]
              y == (today_matches \o future_matches)[j]
          IN  /\ i < j
              /\ x.enhanced_info.importance_score = y.enhanced_info.importance_score
              /\ x.enhanced_info.days_from_today = y.enhanced_info.days_from_today
              /\ StrLess(y.utcDate, x.utcDate)
              /\ y \in Elements(response.featured_matches)
              /\ x \in Elements(response.featured_matches)

----------------------------------------------------------------------------
(* The normalizer on its own: the primary loop of get_matches_today over    *)
(* two leagues whose scoreboards answer 200 with the event lists of input.  *)

\* The variables of get_matches_today and of the scorer as they are before a
\* request.
Idle ==
    /\ li = 1
    /\ days_offset = FirstOffset
    /\ eli = 1
    /\ all_matches = <<>>
    /\ matches_found = FALSE
    /\ extended_search = FALSE
    /\ source_stats = [espn_api |-> 0, football_data_fallback |-> 0, total_unique |-> 0]
    /\ queries = <<>>
    /\ nonEmpty = 0
    /\ fb_matches = <<>>
    /\ allFailed = TRUE
    /\ today_matches = <<>>
    /\ future_matches = <<>>
    /\ response = NoResponse
    /\ m = NoMatch
    /\ enhanced = NoEnhanced

\* A fixture of two sides with the scores the provider attached to them.
Fixture(id, status, home_score, away_score) ==
    Event(id, status, Competitor("home", "Everton", home_score),
          Competitor("away", "Getafe", away_score), today, 15, NoVenue)

\* The events the normalizer is run on. Among them: an event whose two
\* participants are both tagged away; one
\* without status, date and venue whose first participant carries no side
\* and no score; one without a `competitions` key.
TestEvents ==
    {BrokenEvent, OneSided(today), BothHome(today),
     Event(92, "STATUS_SCHEDULED", Competitor("away", "Getafe", <<>>),
           Competitor("away", "Everton", <<>>), today, 18, NoVenue),
     [malformed   |-> FALSE,
      id          |-> 93,
      competitors |-> <<[name |-> "Everton"], [homeAway |-> "home", name |-> "Getafe"]>>],
     [malformed |-> FALSE, id |-> 94],
     Fixture(20, "STATUS_SCHEDULED", <<>>, <<>>),
     Fixture(21, "STATUS_FINAL", Text(<<1, 0>>), Text(<<9>>)),
     Fixture(22, "STATUS_FINAL", Num(10), Num(9)),
     Fixture(23, "STATUS_FINAL", Text(<<2>>), Num(1)),
     Fixture(24, "STATUS_FINAL", Text(<<2>>), <<>>),
     Fixture(25, "STATUS_IN_PROGRESS", Text(<<1>>), Text(<<1>>)),
     Fixture(26, "STATUS_FINAL", Num(0), Num(3)),
     Fixture(27, "STATUS_FINAL", Text(<<2>>), Text(<<2>>)),
     Fixture(28, "STATUS_SCHEDULED", Text(<<0>>), Text(<<0>>))}

\* input: data.get('events', []) of the first league queried (up to two
\* events) and of the second (up to one).
ConvertInit ==
    /\ pc = "convert"
    /\ Idle
    /\ input \in
         {<<first, later>> :
            first \in {<<>>} \cup {<<a>> : a \in TestEvents}
                      \cup {<<a, b>> : a \in TestEvents, b \in TestEvents},
            later \in {<<>>} \cup {<<a>> : a \in TestEvents}}
    /\ output = NoOutput

\* One iteration of `for league_id, league_name in espn_leagues.items()`
\* whose call answers 200 with the events input[li].
ConvertResponse ==
    /\ pc = "convert"
    /\ LET new == ConvertAll(input[li], espn_leagues[li].name)
       IN  /\ all_matches' = all_matches \o new
           /\ matches_found' = (matches_found \/ new # <<>>)
    /\ li' = li + 1
    /\ pc' = IF li = Len(input) THEN "converted" ELSE "convert"
    /\ UNCHANGED <<days_offset, eli, extended_search, source_stats, queries, nonEmpty,
                   fb_matches, allFailed, today_matches, future_matches, response,
                   m, enhanced, input, output>>

SpecConvert == ConvertInit /\ [][ConvertResponse]_vars

----------------------------------------------------------------------------
(* Claims about the normalizer                                              *)

\* The events of input in the order the loop meets them, each with the name
\* of the league whose scoreboard carried it.
Tagged ==
    [k \in 1..(Len(input[1]) + Len(input[2])) |->
        IF k <= Len(input[1])
        THEN [event |-> input[1][k], league |-> espn_leagues[1].name]
        ELSE [event |-> input[2][k - Len(input[1])], league |-> espn_leagues[2].name]]

IsHome(competitor) == Get(competitor, "homeAway", "") = "home"

\* No home/away pair: the participants are all on one side.
SameSide(event) ==
    \A i, j \in 1..Len(event.competitors) :
        IsHome(event.competitors[i]) <=> IsHome(event.competitors[j])

Unparsable(event) ==
    \/ event.malformed
    \/ "competitors" \notin DOMAIN event
    \/ Len(event.competitors) < 2
    \/ SameSide(event)

\* A finished event whose two scores are of different JSON types.
ScoreTypeClash(event) ==
    /\ Get(event, "status", "") = "STATUS_FINAL"
    /\ \E i, j \in 1..Len(event.competitors) :
        LET a == Get(event.competitors[i], "score", <<>>)
            b == Get(event.competitors[j], "score", <<>>)
        IN  a # <<>> /\ b # <<>> /\ IsNum(a) # IsNum(b)

Parsable(entry) == ~Unparsable(entry.event) /\ ~ScoreTypeClash(entry.event)

\* C11: the normalizer returns None, without raising, for an event that is
\* malformed, has fewer than two participants or has all its participants on
\* one side; the fetch omits such an event and still appends every other
\* event of the same response and of the next league's response, in order.
C11_BadEventsOmitted ==
    LET kept == SelectSeq(Tagged, Parsable)
    IN  /\ \A k \in 1..Len(Tagged) :
             Unparsable(Tagged[k].event) =>
                convert_espn_to_standard_format(Tagged[k].event, Tagged[k].league) = None
        /\ \A i \in 1..Len(all_matches) : all_matches[i] # None
        /\ pc = "converted" =>
             /\ Len(all_matches) = Len(kept)
             /\ \A i \in 1..Len(kept) :
                  /\ all_matches[i].id = <<"espn", kept[i].event.id>>
                  /\ all_matches[i].competition = kept[i].league

\* The first response opens with an event that cannot be normalized followed
\* by a sound one, the second league's response holds one sound event: both
\* sound events were appended, the second league's after the first's.
C11_Witness ==
    /\ pc = "converted"
    /\ Len(input[1]) = 2
    /\ Unparsable(input[1][1])
    /\ ~Unparsable(input[1][2])
    /\ Len(input[2]) = 1
    /\ ~Unparsable(input[2][1])
    /\ Len(all_matches) = 2
    /\ all_matches[2].competition = espn_leagues[2].name

RECURSIVE TextValue(_)
TextValue(digits) ==
    IF digits = <<>> THEN 0
    ELSE 10 * TextValue(SubSeq(digits, 1, Len(digits) - 1)) + digits[Len(digits)]

\* The number a score stands for.
Value(score) == IF IsNum(score) THEN score.num ELSE TextValue(score.text)

\* C12: score.winner of a normalized match is present only when the status is
\* FINISHED and both full-time scores are present, and it then agrees with
\* the numeric comparison of the two scores.
C12_WinnerNumeric ==
    \A i \in 1..Len(all_matches) :
        LET match == all_matches[i]
            home  == match.score.fullTime.home
            away  == match.score.fullTime.away
        IN  match.score.winner # "None" =>
              /\ match.status = "FINISHED"
              /\ home # <<>>
              /\ away # <<>>
              /\ match.score.winner =
                   IF Value(home) > Value(away) THEN "HOME_TEAM"
                   ELSE IF Value(away) > Value(home) THEN "AWAY_TEAM"
                   ELSE "DRAW"

----------------------------------------------------------------------------
(* Competition lifecycle analyzer                                           *)

\* datetime.now(timezone.utc), as <<day, hour>>
current_date == <<today, 12>>

\* datetime.fromisoformat(match['utcDate'].replace('Z', '+00:00'))
FromIso(text) == <<text[1], text[2]>>

\* a > b on two datetimes
After(a, b) == a[1] > b[1] \/ (a[1] = b[1] /\ a[2] > b[2])

\* The `for match in matches` loop: the buckets in the order their
\* competition id is first seen, each with the reduced matches appended.
RECURSIVE Group(_, _)
Group(matches, competitions) ==
    IF matches = <<>> THEN competitions
    ELSE LET match       == Head(matches)
             competition == Get(match, "competition", <<>>)
             comp_id     == Get(competition, "id", <<>>)
             known       == \E i \in 1..Len(competitions) : competitions[i].id = comp_id
             opened      == IF known THEN competitions
                            ELSE Append(competitions,
                                        [id         |-> comp_id,
                                         name       |-> Get(competition, "name", "Unknown"),
                                         matches    |-> <<>>,
                                         status     |-> "unknown",
                                         next_match |-> <<>>,
                                         last_match |-> <<>>])
             reduced     == [date |-> FromIso(match.utcDate), status |-> match.status]
         IN  Group(Tail(matches),
                   [i \in 1..Len(opened) |->
                       IF opened[i].id = comp_id
                       THEN [opened[i] EXCEPT !.matches = Append(@, reduced)]
                       ELSE opened[i]])

\* matches.sort(key=lambda x: x['date']): a stable sort
RECURSIVE InsertByDate(_, _)
InsertByDate(x, sorted) ==
    IF sorted = <<>> THEN <<x>>
    ELSE IF After(Head(sorted).date, x.date) THEN <<x>> \o sorted
    ELSE <<Head(sorted)>> \o InsertByDate(x, Tail(sorted))

RECURSIVE SortByDate(_)
SortByDate(list) ==
    IF list = <<>> THEN <<>>
    ELSE InsertByDate(list[Len(list)], SortByDate(SubSeq(list, 1, Len(list) - 1)))

\* A test of the status alone.
IsUpcomingAnyDate(match) == match["status"] \in {"SCHEDULED", "TIMED"}

IsUpcoming(match) ==
    After(match["date"], current_date) /\ match["status"] \in {"SCHEDULED", "TIMED"}

IsRecent(match) ==
    ~After(match["date"], current_date) /\ match["status"] \in {"FINISHED", "LIVE", "IN_PLAY"}

\* The body of `for comp_id, comp_data in competitions.items()` for a bucket
\* that has matches: comp_data as the loop leaves it.
Lifecycle(comp_data) ==
    LET matches          == SortByDate(comp_data.matches)
        upcoming_matches == SelectSeq(matches, IsUpcoming)
        recent_matches   == SelectSeq(matches, IsRecent)
        base == [comp_data EXCEPT
                   !.matches    = matches,
                   !.next_match = IF upcoming_matches # <<>>
                                  THEN <<upcoming_matches[1]>> ELSE <<>>,
                   !.last_match = IF recent_matches # <<>>
                                  THEN <<recent_matches[Len(recent_matches)]>> ELSE <<>>]
    IN  IF upcoming_matches # <<>> /\ recent_matches # <<>>
        THEN [status            |-> "active",
              matches_played    |-> Len(recent_matches),
              matches_remaining |-> Len(upcoming_matches)] @@ base
        ELSE IF upcoming_matches # <<>>
        THEN [status            |-> "upcoming",
              matches_remaining |-> Len(upcoming_matches),
              starts            |-> upcoming_matches[1].date] @@ base
        ELSE IF recent_matches # <<>>
        THEN [status         |-> "completed",
              matches_played |-> Len(recent_matches),
              ended          |-> recent_matches[Len(recent_matches)].date] @@ base
        ELSE base

priority_order ==
    ("UEFA Champions League" :> 1) @@ ("UEFA Europa League" :> 2) @@
    ("UEFA Conference League" :> 3) @@ ("Premier League" :> 4) @@
    ("La Liga" :> 4) @@ ("Primera Division" :> 4) @@ ("Serie A" :> 4) @@
    ("Bundesliga" :> 4) @@ ("Ligue 1" :> 4) @@ ("FA Cup" :> 5) @@
    ("Copa del Rey" :> 5) @@ ("DFB-Pokal" :> 5) @@ ("Coppa Italia" :> 5) @@
    ("EFL Cup" :> 6) @@ ("Championship" :> 7)

\* The key of sort_competitions
CompetitionKey(x) ==
    <<Get(priority_order, x.name, 99),
      IF x.status = "upcoming" THEN Get(x, "starts", current_date) ELSE current_date>>

CompetitionKeyLess(x, y) ==
    LET a == CompetitionKey(x)
        b == CompetitionKey(y)
    IN  a[1] < b[1] \/ (a[1] = b[1] /\ After(b[2], a[2]))

RECURSIVE InsertCompetition(_, _)
InsertCompetition(x, sorted) ==
    IF sorted = <<>> THEN <<x>>
    ELSE IF CompetitionKeyLess(x, Head(sorted)) THEN <<x>> \o sorted
    ELSE <<Head(sorted)>> \o InsertCompetition(x, Tail(sorted))

RECURSIVE sort_competitions(_)
sort_competitions(comps) ==
    IF comps = <<>> THEN <<>>
    ELSE InsertCompetition(comps[Len(comps)],
                           sort_competitions(SubSeq(comps, 1, Len(comps) - 1)))

WithStatus(comps, status) == SelectSeq(comps, LAMBDA comp_data : comp_data.status = status)

analyze_team_competitions(matches) ==
    LET competitions == Group(matches, <<>>)
        analysed     == [i \in 1..Len(competitions) |->
                            IF competitions[i].matches = <<>> THEN competitions[i]
                            ELSE Lifecycle(competitions[i])]
    IN  [active             |-> sort_competitions(WithStatus(analysed, "active")),
         upcoming           |-> sort_competitions(WithStatus(analysed, "upcoming")),
         completed          |-> sort_competitions(WithStatus(analysed, "completed")),
         total_competitions |-> Len(competitions)]

----------------------------------------------------------------------------
(* The analyzer on its own: one call on a match list of a team.             *)

\* Matches of two competitions with kick-off times around now: yesterday,
\* this very instant, later today, in two days.
TeamFixtures ==
    {[competition |-> c, utcDate |-> d, status |-> s] :
        c \in {[id |-> 2021, name |-> "Premier League"],
               [id |-> 2001, name |-> "UEFA Champions League"]},
        d \in {<<today - 1, 15, 0>>, <<today, 12, 0>>, <<today, 20, 0>>,
               <<today + 2, 15, 0>>},
        s \in {"SCHEDULED", "TIMED", "FINISHED", "LIVE", "IN_PLAY", "POSTPONED"}}

\* The match lists: up to three matches, the first in the Premier League.
TeamLists ==
    LET first == {x \in TeamFixtures : x.competition.id = 2021}
    IN  {<<>>} \cup {<<a>> : a \in first}
        \cup {<<a, b>> : a \in first, b \in TeamFixtures}
        \cup {<<a, b, c>> : a \in first, b \in TeamFixtures, c \in TeamFixtures}

CompetitionsInit ==
    /\ pc = "competitions"
    /\ Idle
    /\ input \in TeamLists
    /\ output = NoOutput

AnalyzeCompetitions ==
    /\ pc = "competitions"
    /\ output' = analyze_team_competitions(input)
    /\ pc' = "analyzed"
    /\ UNCHANGED <<mergerVars, scorerVars, input>>

SpecCompetitions == CompetitionsInit /\ [][AnalyzeCompetitions]_vars

----------------------------------------------------------------------------
(* Claims about the competition lifecycle analyzer                          *)

\* The positions of the input matches of one competition that lie after now
\* with status SCHEDULED or TIMED, and at or before now with status FINISHED,
\* LIVE or IN_PLAY.
UpcomingOf(comp_id) ==
    {i \in 1..Len(input) :
        /\ input[i].competition.id = comp_id
        /\ After(<<input[i].utcDate[1], input[i].utcDate[2]>>, current_date)
        /\ input[i].status \in {"SCHEDULED", "TIMED"}}

RecentOf(comp_id) ==
    {i \in 1..Len(input) :
        /\ input[i].competition.id = comp_id
        /\ ~After(<<input[i].utcDate[1], input[i].utcDate[2]>>, current_date)
        /\ input[i].status \in {"FINISHED", "LIVE", "IN_PLAY"}}

InputIds == {input[i].competition.id : i \in 1..Len(input)}

DatesAt(positions) == {<<input[i].utcDate[1], input[i].utcDate[2]>> : i \in positions}

Earliest(dates) == CHOOSE d \in dates : \A e \in dates : ~After(d, e)

Latest(dates) == CHOOSE d \in dates : \A e \in dates : ~After(e, d)

\* The entries of a result list that belong to one competition.
EntriesOf(list, comp_id) == SelectSeq(list, LAMBDA x : x.id = comp_id)

\* C13: a bucket with upcoming and recent matches is listed as active with
\* matches_played = |recent| and matches_remaining = |upcoming|; with upcoming
\* matches only, as upcoming with starts = the earliest upcoming date; with
\* recent matches only, as completed with ended = the latest recent date; with
\* neither, in none of the three lists, while total_competitions counts it.
C13_Lifecycle ==
    pc = "analyzed" =>
      /\ output.total_competitions = Cardinality(InputIds)
      /\ \A comp_id \in InputIds :
           LET up        == UpcomingOf(comp_id)
               rec       == RecentOf(comp_id)
               active    == EntriesOf(output.active, comp_id)
               upcoming  == EntriesOf(output.upcoming, comp_id)
               completed == EntriesOf(output.completed, comp_id)
           IN  IF up # {} /\ rec # {}
               THEN /\ Len(active) = 1 /\ upcoming = <<>> /\ completed = <<>>
                    /\ active[1].status = "active"
                    /\ active[1].matches_played = Cardinality(rec)
                    /\ active[1].matches_remaining = Cardinality(up)
               ELSE IF up # {}
               THEN /\ Len(upcoming) = 1 /\ active = <<>> /\ completed = <<>>
                    /\ upcoming[1].status = "upcoming"
                    /\ upcoming[1].starts = Earliest(DatesAt(up))
               ELSE IF rec # {}
               THEN /\ Len(completed) = 1 /\ active = <<>> /\ upcoming = <<>>
                    /\ completed[1].status = "completed"
                    /\ completed[1].ended = Latest(DatesAt(rec))
               ELSE active = <<>> /\ upcoming = <<>> /\ completed = <<>>

\* The Premier League bucket holds one postponed match and is in no list;
\* the Champions League bucket holds two upcoming matches given latest first
\* and is upcoming from the earlier one; both competitions are counted.
C13_Witness ==
    /\ pc = "analyzed"
    /\ Len(input) = 3
    /\ input[1].status = "POSTPONED"
    /\ input[2].utcDate = <<today + 2, 15, 0>>
    /\ output.total_competitions = 2
    /\ output.active = <<>>
    /\ output.completed = <<>>
    /\ Len(output.upcoming) = 1
    /\ output.upcoming[1].id = 2001
    /\ output.upcoming[1].matches_remaining = 2
    /\ output.upcoming[1].starts = <<today, 20>>

\* C14: every bucket that has a match is in exactly one of the active,
\* upcoming and completed lists.
C14_ExactlyOneList ==
    pc = "analyzed" =>
      \A comp_id \in InputIds :
        Len(EntriesOf(output.active, comp_id)) + Len(EntriesOf(output.upcoming, comp_id))
          + Len(EntriesOf(output.completed, comp_id)) = 1

----------------------------------------------------------------------------
(* Squad analytics                                                          *)

\* datetime.now() of get_top_performers, as <<year, month, day>>
today_ymd == <<2025, 6, 15>>

\* datetime.strptime(text, '%Y-%m-%d'): <<the date>>, or <<>> when it raises.
\* A birth date is the tuple of the numbers its text holds; a text with a
\* time behind the date has a fourth one.
Strptime(text) ==
    IF Len(text) = 3 /\ text[2] \in 1..12 /\ text[3] \in 1..31 THEN <<text>> ELSE <<>>

\* (today.month, today.day) < (birth_date.month, birth_date.day)
BirthdayAhead(birth_date) ==
    \/ today_ymd[2] < birth_date[2]
    \/ today_ymd[2] = birth_date[2] /\ today_ymd[3] < birth_date[3]

\* player_data['age']: <<age>>, or <<>> for None
AgeOf(player) ==
    LET dateOfBirth == Get(player, "dateOfBirth", <<>>)
        parsed      == IF dateOfBirth = <<>> THEN <<>> ELSE Strptime(dateOfBirth)
    IN  IF parsed = <<>> THEN <<>>
        ELSE <<today_ymd[1] - parsed[1][1] - (IF BirthdayAhead(parsed[1]) THEN 1 ELSE 0)>>

PlayerData(player) ==
    [name        |-> Get(player, "name", "Unknown"),
     position    |-> Get(player, "position", <<"Unknown">>),
     nationality |-> Get(player, "nationality", "Unknown"),
     age         |-> AgeOf(player),
     dateOfBirth |-> Get(player, "dateOfBirth", <<>>)]

\* A grouping that tests the attacking terms before the others.
PositionGroupAttackFirst(pos) ==
    IF Contains(pos, <<"Goalkeeper">>) THEN "Goalkeepers"
    ELSE IF \E term \in {"Forward", "Winger", "Attacker", "Offence"} : Contains(pos, <<term>>)
         THEN "Attackers"
    ELSE IF \E term \in {"Back", "Defence"} : Contains(pos, <<term>>) THEN "Defenders"
    ELSE IF Contains(pos, <<"Midfield">>) THEN "Midfielders"
    ELSE "Other"

\* The if/elif chain that picks the group of a position
PositionGroup(pos) ==
    IF Contains(pos, <<"Goalkeeper">>) THEN "Goalkeepers"
    ELSE IF \E term \in {"Back", "Defence"} : Contains(pos, <<term>>) THEN "Defenders"
    ELSE IF Contains(pos, <<"Midfield">>) THEN "Midfielders"
    ELSE IF \E term \in {"Forward", "Winger", "Attacker", "Offence"} : Contains(pos, <<term>>)
         THEN "Attackers"
    ELSE "Other"

GroupNames == {"Goalkeepers", "Defenders", "Midfielders", "Attackers", "Other"}

\* list.sort(key=...) on entries [key, item]: stable, ascending key
RECURSIVE InsertKeyed(_, _)
InsertKeyed(x, sorted) ==
    IF sorted = <<>> THEN <<x>>
    ELSE IF x.key < Head(sorted).key THEN <<x>> \o sorted
    ELSE <<Head(sorted)>> \o InsertKeyed(x, Tail(sorted))

RECURSIVE SortKeyed(_)
SortKeyed(list) ==
    IF list = <<>> THEN <<>>
    ELSE InsertKeyed(list[Len(list)], SortKeyed(SubSeq(list, 1, Len(list) - 1)))

\* players.sort(key=lambda x: x['age'] if x['age'] is not None else 999),
\* with reverse=True when sign is -1 (equal keys keep their order)
SortByAge(players, sign) ==
    LET keyed  == [i \in 1..Len(players) |->
                     [key  |-> sign * (IF players[i].age = <<>> THEN 999
                                       ELSE players[i].age[1]),
                      item |-> players[i]]]
        sorted == SortKeyed(keyed)
    IN  [i \in 1..Len(sorted) |-> sorted[i].item]

\* list[:n]
FirstN(list, n) == SubSeq(list, 1, Min(n, Len(list)))

\* A threshold that lets a player of 23 in.
IsYoungIncl(age) == age <= 23

IsYoung(age) == age < 23

\* A threshold that leaves a player of 30 out.
IsExperiencedStrict(age) == age > 30

IsExperienced(age) == age >= 30

TalentCap == 8

\* round(num / den, 1) in tenths, for num >= 0: to the nearest tenth, a tie
\* to the even one.
Round1(num, den) ==
    LET q == (10 * num) \div den
        r == (10 * num) % den
    IN  IF 2 * r > den THEN q + 1
        ELSE IF 2 * r = den THEN q + (q % 2)
        ELSE q

RECURSIVE SumSeq(_)
SumSeq(list) == IF list = <<>> THEN 0 ELSE Head(list) + SumSeq(Tail(list))

\* sorted() on the nationality names the squads are drawn from
Alphabetical == <<"Brazil", "England", "Spain">>

\* nationality_counts in insertion order, as <<name, count>> pairs
RECURSIVE CountNationalities(_, _)
CountNationalities(players, counts) ==
    IF players = <<>> THEN counts
    ELSE LET nationality == Head(players).nationality
             known       == \E i \in 1..Len(counts) : counts[i][1] = nationality
             next        == IF nationality = "Unknown" THEN counts
                            ELSE IF known
                            THEN [i \in 1..Len(counts) |->
                                    IF counts[i][1] = nationality
                                    THEN <<nationality, counts[i][2] + 1>> ELSE counts[i]]
                            ELSE Append(counts, <<nationality, 1>>)
         IN  CountNationalities(Tail(players), next)

\* sorted(nationality_counts.items(), key=lambda x: x[1], reverse=True)
SortByCount(counts) ==
    LET sorted == SortKeyed([i \in 1..Len(counts) |->
                               [key |-> -counts[i][2], item |-> counts[i]]])
    IN  [i \in 1..Len(sorted) |-> sorted[i].item]

\* The value returned for an empty squad
NoPerformers ==
    [full_squad_by_position |-> <<>>, young_talents |-> <<>>,
     experienced_players |-> <<>>, squad_summary |-> <<>>,
     nationality_breakdown |-> <<>>, squad_analytics |-> <<>>]

get_top_performers(squad) ==
    IF squad = <<>> THEN NoPerformers
    ELSE
    LET squad_with_ages   == [i \in 1..Len(squad) |-> PlayerData(squad[i])]
        players_with_ages == SelectSeq(squad_with_ages, LAMBDA p : p.age # <<>>)
        position_groups   ==
            [group \in GroupNames |->
                SortByAge(SelectSeq(squad_with_ages,
                                    LAMBDA p : PositionGroup(p.position) = group), 1)]
        young_talents ==
            SortByAge(SelectSeq(players_with_ages, LAMBDA p : IsYoung(p.age[1])), 1)
        experienced_players ==
            SortByAge(SelectSeq(players_with_ages, LAMBDA p : IsExperienced(p.age[1])), -1)
        sorted_nationalities == SortByCount(CountNationalities(squad_with_ages, <<>>))
        top_nationality ==
            IF sorted_nationalities # <<>> THEN sorted_nationalities[1] ELSE <<"Unknown", 0>>
        ages == [i \in 1..Len(players_with_ages) |-> players_with_ages[i].age[1]]
        nationalities == {squad_with_ages[i].nationality : i \in 1..Len(squad_with_ages)}
                           \ {"Unknown"}
    IN  [full_squad_by_position |-> position_groups,
         young_talents          |-> FirstN(young_talents, TalentCap),
         experienced_players    |-> FirstN(experienced_players, TalentCap),
         squad_summary |->
            [total_players       |-> Len(squad_with_ages),
             average_age         |-> IF ages # <<>> THEN Round1(SumSeq(ages), Len(ages)) ELSE 0,
             youngest_age        |-> IF ages # <<>>
                                     THEN CHOOSE a \in {ages[i] : i \in 1..Len(ages)} :
                                            \A i \in 1..Len(ages) : a <= ages[i]
                                     ELSE 0,
             oldest_age          |-> IF ages # <<>>
                                     THEN CHOOSE a \in {ages[i] : i \in 1..Len(ages)} :
                                            \A i \in 1..Len(ages) : a >= ages[i]
                                     ELSE 0,
             total_nationalities |-> Cardinality(nationalities),
             nationalities       |-> FirstN(SelectSeq(Alphabetical,
                                                      LAMBDA n : n \in nationalities), 10)],
         nationality_breakdown  |-> sorted_nationalities,
         squad_analytics |->
            [top_nationality |->
                [country    |-> top_nationality[1],
                 count      |-> top_nationality[2],
                 percentage |-> Round1(top_nationality[2] * 100, Len(squad_with_ages))],
             age_distribution |->
                [under_20    |-> Len(SelectSeq(ages, LAMBDA a : a < 20)),
                 age_20_24   |-> Len(SelectSeq(ages, LAMBDA a : 20 <= a /\ a <= 24)),
                 age_25_29   |-> Len(SelectSeq(ages, LAMBDA a : 25 <= a /\ a <= 29)),
                 age_30_plus |-> Len(SelectSeq(ages, LAMBDA a : a >= 30))],
             position_distribution |->
                [group \in {g \in GroupNames : position_groups[g] # <<>>} |->
                    Len(position_groups[group])],
             squad_depth |->
                [goalkeepers |-> Len(position_groups["Goalkeepers"]),
                 defenders   |-> Len(position_groups["Defenders"]),
                 midfielders |-> Len(position_groups["Midfielders"]),
                 attackers   |-> Len(position_groups["Attackers"])]]]

----------------------------------------------------------------------------
(* The squad analytics on their own: one call on the squad of a team.       *)

Member(name, position, nationality, dateOfBirth) ==
    [name |-> name, position |-> position, nationality |-> nationality,
     dateOfBirth |-> dateOfBirth]

\* Raw position strings, cut into the pieces the tests look for.
TestPositions ==
    {<<"Goalkeeper">>, <<"Centre", "-", "Back">>, <<"Defence">>,
     <<"Defensive", " ", "Midfield">>, <<"Midfield", "er">>, <<"Right", " ", "Winger">>,
     <<"Centre", "-", "Forward">>, <<"Offence">>, <<"Attacker">>, <<"Defender">>,
     <<"Coach">>, <<"Goalkeeper", "/", "Back">>, <<"Back", "/", "Forward">>,
     <<"Midfield", "/", "Forward">>, <<"Winger", "/", "Midfield">>}

\* Birth dates around the thresholds for today_ymd: 23 years ago today and
\* the day after, 30 years ago today and the day after, others well inside a
\* class, a text with a time behind the date, a month out of range.
TestBirths ==
    {<<2002, 6, 15>>, <<2002, 6, 16>>, <<2007, 1, 1>>, <<1995, 6, 15>>, <<1995, 6, 16>>,
     <<1990, 1, 1>>, <<1998, 3, 3>>, <<1995, 6, 15, 0>>, <<1990, 13, 1>>}

TestMembers ==
    {Member("A", position, "England", <<1998, 3, 3>>) : position \in TestPositions}
    \cup {Member("B", <<"Defence">>, "Spain", birth) : birth \in TestBirths}
    \cup {[name |-> "C", position |-> <<"Offence">>, nationality |-> "Brazil"],
          [name |-> "D", dateOfBirth |-> <<2004, 2, 29>>]}

\* The squad's older and younger blocks: up to MaxBlock players of 31, or of
\* 19, listed ahead of the others.
MaxBlock == 8

Block(n, dateOfBirth) ==
    [i \in 1..n |-> Member("E", <<"Midfield">>, "Spain", dateOfBirth)]

TestSquads ==
    {block \o rest :
        block \in {Block(n, <<1994, 1, 1>>) : n \in 0..MaxBlock}
                  \cup {Block(n, <<2006, 1, 1>>) : n \in 1..MaxBlock},
        rest \in {<<>>} \cup {<<a>> : a \in TestMembers}
                 \cup {<<a, b>> : a \in TestMembers, b \in TestMembers}}

SquadInit ==
    /\ pc = "squad"
    /\ Idle
    /\ input \in TestSquads
    /\ output = NoOutput

TopPerformers ==
    /\ pc = "squad"
    /\ output' = get_top_performers(input)
    /\ pc' = "performers"
    /\ UNCHANGED <<mergerVars, scorerVars, input>>

SpecSquad == SquadInit /\ [][TopPerformers]_vars

----------------------------------------------------------------------------
(* Claims about the squad analytics                                         *)

\* The text is a date.
IsDate(text) == Len(text) = 3 /\ text[2] <= 12

\* The age of squad member i in whole years today, <<>> when the birth date
\* is absent or is not a date.
Age(i) ==
    LET member == input[i]
    IN  IF "dateOfBirth" \notin DOMAIN member THEN <<>>
        ELSE LET dob == member.dateOfBirth
             IN  IF ~IsDate(dob) THEN <<>>
                 ELSE IF dob[2] > today_ymd[2]
                         \/ (dob[2] = today_ymd[2] /\ dob[3] > today_ymd[3])
                 THEN <<today_ymd[1] - dob[1] - 1>>
                 ELSE <<today_ymd[1] - dob[1]>>

Young == {i \in 1..Len(input) : Age(i) # <<>> /\ Age(i)[1] < 23}

Experienced == {i \in 1..Len(input) : Age(i) # <<>> /\ Age(i)[1] >= 30}

MinOf(a, b) == IF a <= b THEN a ELSE b

\* C15: young_talents holds only players of known age below 23, youngest
\* first, and as many of them as there are up to 8; experienced_players holds
\* only players of known age 30 or more, oldest first, as many as there are
\* up to 8; a player without a usable birth date is in neither list.
C15_AgeLists ==
    pc = "performers" /\ input # <<>> =>
      LET young == output.young_talents
          old   == output.experienced_players
      IN  /\ Len(young) = MinOf(8, Cardinality(Young))
          /\ Len(old) = MinOf(8, Cardinality(Experienced))
          /\ \A k \in 1..Len(young) : young[k].age # <<>> /\ young[k].age[1] < 23
          /\ \A k \in 1..Len(old) : old[k].age # <<>> /\ old[k].age[1] >= 30
          /\ \A k \in 1..(Len(young) - 1) : young[k].age[1] <= young[k + 1].age[1]
          /\ \A k \in 1..(Len(old) - 1) : old[k].age[1] >= old[k + 1].age[1]
          \* the lists are the extremes of their class
          /\ \A k \in 1..Len(young) :
               Cardinality({i \in Young : Age(i)[1] < young[k].age[1]}) < k
          /\ \A k \in 1..Len(old) :
               Cardinality({i \in Experienced : Age(i)[1] > old[k].age[1]}) < k
          /\ \A k \in 1..Len(young) : IsDate(young[k].dateOfBirth)
          /\ \A k \in 1..Len(old) : IsDate(old[k].dateOfBirth)
          /\ \A group \in GroupNames :
               \A k \in 1..Len(output.full_squad_by_position[group]) :
                 LET player == output.full_squad_by_position[group][k]
                 IN  ~IsDate(player.dateOfBirth) => player.age = <<>>

\* Eight players of 19 listed ahead of one of 18 and one born on a date that
\* is no date: the list of talents is full, opens with the youngest, and the
\* player without age is left out.
C15_Witness ==
    /\ pc = "performers"
    /\ Len(input) = 10
    /\ Age(9) = <<18>>
    /\ Get(input[10], "dateOfBirth", <<>>) = <<1990, 13, 1>>
    /\ Len(output.young_talents) = 8
    /\ output.young_talents[1].age = <<18>>
    /\ output.young_talents[2].age = <<19>>
    /\ output.experienced_players = <<>>

\* The squad members aged exactly 30 and those older than 30.
Thirty == {i \in 1..Len(input) : Age(i) = <<30>>}

OverThirty == {i \in 1..Len(input) : Age(i) # <<>> /\ Age(i)[1] > 30}

\* The entries of a result list that are aged exactly 30.
ThirtyIn(list) == {k \in 1..Len(list) : list[k].age = <<30>>}

BornYearsAgo(years) == <<today_ymd[1] - years, today_ymd[2], today_ymd[3]>>

\* C16 as stated: a player born exactly 23 years before today is never in
\* young_talents, and every player aged exactly 30 is in experienced_players.
C16_Thresholds ==
    pc = "performers" /\ input # <<>> =>
      /\ \A k \in 1..Len(output.young_talents) :
           output.young_talents[k].dateOfBirth # BornYearsAgo(23)
      /\ Cardinality(ThirtyIn(output.experienced_players)) = Cardinality(Thirty)

\* C16, amended: a player born exactly 23 years before today is never in
\* young_talents; the players aged exactly 30 are in experienced_players as
\* far as the 8 places of the list are not taken by older players: of n
\* players aged 30 behind k older ones, min(n, 8 - k) are listed (none when
\* k >= 8).
C16_ThresholdsCapped ==
    pc = "performers" /\ input # <<>> =>
      LET older == Cardinality(OverThirty)
          room  == IF older >= 8 THEN 0 ELSE 8 - older
      IN  /\ \A k \in 1..Len(output.young_talents) :
               output.young_talents[k].dateOfBirth # BornYearsAgo(23)
          /\ Cardinality(ThirtyIn(output.experienced_players))
               = MinOf(Cardinality(Thirty), room)

\* Eight players of 31, one who turns 30 today and one who turned 23 today:
\* the list of experienced players is full without the player of 30, and the
\* player of 23 is no talent.
C16_Witness ==
    /\ pc = "performers"
    /\ Len(input) = 10
    /\ Cardinality(OverThirty) = 8
    /\ Get(input[9], "dateOfBirth", <<>>) = BornYearsAgo(30)
    /\ Get(input[10], "dateOfBirth", <<>>) = BornYearsAgo(23)
    /\ Len(output.experienced_players) = 8
    /\ ThirtyIn(output.experienced_players) = {}
    /\ output.young_talents = <<>>

\* The grouping rules in the order the claim gives them.
GroupRules ==
    << [terms |-> {"Goalkeeper"}, group |-> "Goalkeepers"],
       [terms |-> {"Back", "Defence"}, group |-> "Defenders"],
       [terms |-> {"Midfield"}, group |-> "Midfielders"],
       [terms |-> {"Forward", "Winger", "Attacker", "Offence"}, group |-> "Attackers"] >>

\* The group of the first rule one of whose terms occurs in the position.
FirstMatch(pos) ==
    LET hits == {r \in 1..Len(GroupRules) :
                    \E k \in 1..Len(pos) : pos[k] \in GroupRules[r].terms}
    IN  IF hits = {} THEN "Other"
        ELSE GroupRules[CHOOSE r \in hits : \A q \in hits : r <= q].group

RawPosition(i) == Get(input[i], "position", <<"Unknown">>)

\* C17: every squad member, with or without an age, is in exactly one
\* position group, the one of the first rule that matches its position
\* (Goalkeeper; Back or Defence; Midfield; Forward, Winger, Attacker or
\* Offence; else Other), so that the group sizes sum to total_players.
C17_PositionGroups ==
    pc = "performers" /\ input # <<>> =>
      LET groups == output.full_squad_by_position
      IN  /\ DOMAIN groups = {"Goalkeepers", "Defenders", "Midfielders", "Attackers", "Other"}
          /\ \A group \in DOMAIN groups :
               /\ Len(groups[group])
                    = Cardinality({i \in 1..Len(input) : FirstMatch(RawPosition(i)) = group})
               /\ \A k \in 1..Len(groups[group]) :
                    FirstMatch(groups[group][k].position) = group
          /\ output.squad_summary.total_players = Len(input)
          /\ Len(groups["Goalkeepers"]) + Len(groups["Defenders"])
               + Len(groups["Midfielders"]) + Len(groups["Attackers"])
               + Len(groups["Other"]) = output.squad_summary.total_players

\* A player listed as Back/Forward and one without a birth date listed as
\* Offence: the first is a defender, the second an attacker of unknown age.
C17_Witness ==
    /\ pc = "performers"
    /\ Len(input) = 2
    /\ RawPosition(1) = <<"Back", "/", "Forward">>
    /\ RawPosition(2) = <<"Offence">>
    /\ Age(2) = <<>>
    /\ Len(output.full_squad_by_position["Defenders"]) = 1
    /\ Len(output.full_squad_by_position["Attackers"]) = 1
    /\ output.full_squad_by_position["Attackers"][1].age = <<>>
    /\ output.squad_summary.total_players = 2

----------------------------------------------------------------------------
(* Formation inference                                                      *)

\* len(positions.get(position, [])): the players whose position is exactly
\* that one
CountAt(squad, position) ==
    Cardinality({i \in 1..Len(squad) : Get(squad[i], "position", <<"Unknown">>) = position})

\* A test that asks for more than ten outfield players.
OutfieldEnoughStrict(total_outfield) == total_outfield > 10

OutfieldEnough(total_outfield) == total_outfield >= 10

\* The if/elif chain "Suggest common formation based on squad composition"
Formation(defenders, midfielders, attackers) ==
    IF OutfieldEnough(defenders + midfielders + attackers)
    THEN IF defenders >= 4 /\ midfielders >= 3 /\ attackers >= 3 THEN "4-3-3"
         ELSE IF defenders >= 4 /\ midfielders >= 4 /\ attackers >= 2 THEN "4-4-2"
         ELSE IF defenders >= 3 /\ midfielders >= 5 /\ attackers >= 2 THEN "3-5-2"
         ELSE IF defenders >= 5 /\ midfielders >= 3 /\ attackers >= 2 THEN "5-3-2"
         ELSE "4-4-2"
    ELSE "Unknown"

analyze_squad_formation(squad) ==
    IF squad = <<>> THEN [formation |-> "Unknown", positions |-> <<>>]
    ELSE
    LET present   == {Get(squad[i], "position", <<"Unknown">>) : i \in 1..Len(squad)}
        positions == [position \in present |->
                        SelectSeq(squad, LAMBDA player :
                            Get(player, "position", <<"Unknown">>) = position)]
        goalkeepers == CountAt(squad, <<"Goalkeeper">>)
        defenders   == CountAt(squad, <<"Defender">>)
        midfielders == CountAt(squad, <<"Midfield", "er">>)
        attackers   == CountAt(squad, <<"Attacker">>)
    IN  [formation |-> Formation(defenders, midfielders, attackers),
         positions |-> positions,
         count     |-> [goalkeepers |-> goalkeepers, defenders |-> defenders,
                        midfielders |-> midfielders, attackers |-> attackers]]

----------------------------------------------------------------------------
(* The formation inference on its own: one call on a squad made of given    *)
(* numbers of players per position.                                         *)

\* The largest number of players of one outfield position.
MaxCount == 6

\* A squad by its numbers of goalkeepers, defenders, midfielders and
\* attackers, with `others` players whose position is none of the four.
Lineup(gk, df, mf, fw, others) ==
    LET Players(n, position) == [i \in 1..n |-> [name |-> "F", position |-> position]]
    IN  Players(gk, <<"Goalkeeper">>) \o Players(mf, <<"Midfield", "er">>)
          \o Players(others, <<"Centre", "-", "Back">>) \o Players(df, <<"Defender">>)
          \o Players(fw, <<"Attacker">>)

TestLineups ==
    {Lineup(gk, df, mf, fw, others) :
        gk \in {0, 1}, df \in 0..MaxCount, mf \in 0..MaxCount, fw \in 0..MaxCount,
        others \in {0, 4}}

FormationInit ==
    /\ pc = "formation"
    /\ Idle
    /\ input \in TestLineups
    /\ output = NoOutput

SquadFormation ==
    /\ pc = "formation"
    /\ output' = analyze_squad_formation(input)
    /\ pc' = "formed"
    /\ UNCHANGED <<mergerVars, scorerVars, input>>

SpecFormation == FormationInit /\ [][SquadFormation]_vars

----------------------------------------------------------------------------
(* Claims about the formation inference                                     *)

\* The numbers of defenders, midfielders and attackers of the squad.
D == Cardinality({i \in 1..Len(input) : input[i].position = <<"Defender">>})

M == Cardinality({i \in 1..Len(input) : input[i].position = <<"Midfield", "er">>})

A == Cardinality({i \in 1..Len(input) : input[i].position = <<"Attacker">>})

\* The rules in the order the claim gives them.
FormationRules ==
    << [d |-> 4, m |-> 3, a |-> 3, formation |-> "4-3-3"],
       [d |-> 4, m |-> 4, a |-> 2, formation |-> "4-4-2"],
       [d |-> 3, m |-> 5, a |-> 2, formation |-> "3-5-2"],
       [d |-> 5, m |-> 3, a |-> 2, formation |-> "5-3-2"] >>

Matching ==
    {r \in 1..Len(FormationRules) :
        D >= FormationRules[r].d /\ M >= FormationRules[r].m /\ A >= FormationRules[r].a}

\* C18: the formation is 'Unknown' when D + M + A < 10, and otherwise that of
\* the first rule that matches among 4-3-3 (D>=4, M>=3, A>=3), 4-4-2 (D>=4,
\* M>=4, A>=2), 3-5-2 (D>=3, M>=5, A>=2), 5-3-2 (D>=5, M>=3, A>=2), and
\* '4-4-2' when none matches.
C18_Formation ==
    pc = "formed" =>
      output.formation =
        IF D + M + A < 10 THEN "Unknown"
        ELSE IF Matching = {} THEN "4-4-2"
        ELSE FormationRules[CHOOSE r \in Matching : \A q \in Matching : r <= q].formation

\* Exactly ten outfield players, five defenders, three midfielders and two
\* attackers: only the last rule matches.
C18_Witness ==
    /\ pc = "formed"
    /\ D = 5 /\ M = 3 /\ A = 2
    /\ output.formation = "5-3-2"

----------------------------------------------------------------------------
(* Team form calculator                                                     *)

\* A window that takes every match supplied.
ConsideredAll(matches) == matches

\* matches[:10]
Considered(matches) == FirstN(matches, 10)

\* Three points for a win, none for a draw.
PointsNoDraw(wins, draws) == wins * 3

Points(wins, draws) == (wins * 3) + draws

\* `stats` as initialised; competitions is a set
NoStats ==
    [wins |-> 0, draws |-> 0, losses |-> 0, goals_for |-> 0, goals_against |-> 0,
     clean_sheets |-> 0, form |-> <<>>, home_record |-> [wins |-> 0, draws |-> 0, losses |-> 0],
     away_record |-> [wins |-> 0, draws |-> 0, losses |-> 0], competitions |-> {}]

\* The record of one side with one more result of the given kind
Bump(record, kind) == [record EXCEPT ![kind] = @ + 1]

\* One iteration of `for match in matches[:10]`
Count(match, team_id, stats) ==
    LET home_team  == Get(match, "homeTeam", <<>>)
        score      == Get(Get(match, "score", <<>>), "fullTime", <<>>)
        home_score == Get(score, "home", <<>>)
        away_score == Get(score, "away", <<>>)
    IN  IF home_score = <<>> \/ away_score = <<>> THEN stats
        ELSE
        LET competition    == Get(match, "competition", <<>>)
            name           == Get(competition, "name", "")
            is_home        == Get(home_team, "id", <<>>) = <<team_id>>
            team_score     == IF is_home THEN home_score.num ELSE away_score.num
            opponent_score == IF is_home THEN away_score.num ELSE home_score.num
            kind   == IF team_score > opponent_score THEN "wins"
                      ELSE IF team_score < opponent_score THEN "losses"
                      ELSE "draws"
            result == IF kind = "wins" THEN "W" ELSE IF kind = "losses" THEN "L" ELSE "D"
        IN  [stats EXCEPT
               !.competitions  = IF name # "" THEN @ \cup {name} ELSE @,
               !.goals_for     = @ + team_score,
               !.goals_against = @ + opponent_score,
               !.clean_sheets  = IF opponent_score = 0 THEN @ + 1 ELSE @,
               ![kind]         = @ + 1,
               !.home_record   = IF is_home THEN Bump(@, kind) ELSE @,
               !.away_record   = IF is_home THEN @ ELSE Bump(@, kind),
               !.form          = IF Len(@) < 5 THEN Append(@, result) ELSE @]

RECURSIVE CountAll(_, _, _)
CountAll(matches, team_id, stats) ==
    IF matches = <<>> THEN stats
    ELSE CountAll(Tail(matches), team_id, Count(Head(matches), team_id, stats))

\* team_id arrives as the text of the URL segment; the rounded figures are
\* in tenths; <<>> is the {} returned for an empty match list.
calculate_team_stats(matches, team_id) ==
    IF matches = <<>> THEN <<>>
    ELSE
    LET stats         == CountAll(Considered(matches), TextValue(team_id), NoStats)
        total_matches == stats.wins + stats.draws + stats.losses
    IN  IF total_matches > 0
        THEN [win_percentage        |-> Round1(stats.wins * 100, total_matches),
              points                |-> Points(stats.wins, stats.draws),
              average_goals_for     |-> Round1(stats.goals_for, total_matches),
              average_goals_against |-> Round1(stats.goals_against, total_matches),
              goal_difference       |-> stats.goals_for - stats.goals_against] @@ stats
        ELSE stats

----------------------------------------------------------------------------
(* The team form calculator on its own: one call for team 57.               *)

TeamId == <<5, 7>>

\* A match of team 57 at home or away against team 61; a score of <<>> is
\* null.
Played(at_home, home_score, away_score, competition) ==
    [homeTeam    |-> [id |-> IF at_home THEN <<57>> ELSE <<61>>],
     awayTeam    |-> [id |-> IF at_home THEN <<61>> ELSE <<57>>],
     score       |-> [fullTime |-> [home |-> home_score, away |-> away_score]],
     competition |-> [name |-> competition]]

TestResults ==
    {Played(TRUE, Num(2), Num(1), "Premier League"),
     Played(TRUE, Num(0), Num(0), "Premier League"),
     Played(TRUE, Num(0), Num(3), "FA Cup"),
     Played(FALSE, Num(0), Num(2), "Premier League"),
     Played(FALSE, Num(1), Num(1), "FA Cup"),
     Played(FALSE, Num(1), Num(0), "Premier League"),
     Played(TRUE, <<>>, <<>>, "Premier League"),
     Played(FALSE, Num(2), <<>>, "FA Cup"),
     [homeTeam |-> [id |-> <<57>>], awayTeam |-> [id |-> <<61>>]]}

\* The run of like matches in the middle of a list: up to MaxRun of them.
MaxRun == 9

TestForms ==
    {head \o [i \in 1..n |-> match] \o tail :
        head \in {<<>>} \cup {<<a>> : a \in TestResults}
                 \cup {<<a, b>> : a \in TestResults, b \in TestResults},
        n \in 0..MaxRun,
        match \in {Played(TRUE, Num(1), Num(0), "Premier League"),
                   Played(FALSE, Num(2), Num(0), "Premier League"),
                   Played(TRUE, <<>>, Num(1), "Premier League")},
        tail \in {<<>>} \cup {<<a>> : a \in TestResults}}

StatsInit ==
    /\ pc = "stats"
    /\ Idle
    /\ input \in TestForms
    /\ output = NoOutput

TeamStats ==
    /\ pc = "stats"
    /\ output' = calculate_team_stats(input, TeamId)
    /\ pc' = "counted"
    /\ UNCHANGED <<mergerVars, scorerVars, input>>

SpecStats == StatsInit /\ [][TeamStats]_vars

----------------------------------------------------------------------------
(* Claims about the team form calculator                                    *)

HomeGoals(i) == input[i].score.fullTime.home

AwayGoals(i) == input[i].score.fullTime.away

\* The positions of the matches that count: among the first 10, those with
\* both full-time scores.
Counted ==
    {i \in 1..Len(input) :
        /\ i <= 10
        /\ "score" \in DOMAIN input[i]
        /\ HomeGoals(i) # <<>>
        /\ AwayGoals(i) # <<>>}

AtHome(i) == input[i].homeTeam.id = <<57>>

GoalsFor(i) == IF AtHome(i) THEN HomeGoals(i).num ELSE AwayGoals(i).num

GoalsAgainst(i) == IF AtHome(i) THEN AwayGoals(i).num ELSE HomeGoals(i).num

Letter(i) ==
    IF GoalsFor(i) > GoalsAgainst(i) THEN "W"
    ELSE IF GoalsFor(i) < GoalsAgainst(i) THEN "L"
    ELSE "D"

WithLetter(positions, letter) == {i \in positions : Letter(i) = letter}

\* The k-th counted match.
CountedAt(k) == CHOOSE i \in Counted : Cardinality({j \in Counted : j < i}) = k - 1

\* C19: only the first 10 matches are considered and those without both
\* full-time scores are skipped; wins + draws + losses is the number of
\* counted matches, the home and away records add up to the overall wins,
\* draws and losses, and form is the result letters of the first
\* min(5, counted) counted matches in input order.
C19_Counts ==
    pc = "counted" /\ input # <<>> =>
      LET counted == Cardinality(Counted)
      IN  /\ output.wins = Cardinality(WithLetter(Counted, "W"))
          /\ output.draws = Cardinality(WithLetter(Counted, "D"))
          /\ output.losses = Cardinality(WithLetter(Counted, "L"))
          /\ output.wins + output.draws + output.losses = counted
          /\ counted <= 10
          /\ output.home_record.wins + output.away_record.wins = output.wins
          /\ output.home_record.draws + output.away_record.draws = output.draws
          /\ output.home_record.losses + output.away_record.losses = output.losses
          /\ output.home_record.wins
               = Cardinality({i \in WithLetter(Counted, "W") : AtHome(i)})
          /\ Len(output.form) = MinOf(5, counted)
          /\ \A k \in 1..Len(output.form) : output.form[k] = Letter(CountedAt(k))

\* Twelve matches: an away draw, a match without scores, nine home wins and
\* one more match. Ten are considered, nine counted, and form is the draw
\* followed by four wins.
C19_Witness ==
    /\ pc = "counted"
    /\ Len(input) = 12
    /\ Cardinality(Counted) = 9
    /\ output.wins = 8
    /\ output.draws = 1
    /\ output.home_record = [wins |-> 8, draws |-> 0, losses |-> 0]
    /\ output.away_record = [wins |-> 0, draws |-> 1, losses |-> 0]
    /\ output.form = <<"D", "W", "W", "W", "W">>

\* The derived figures of a result.
Derived ==
    {"win_percentage", "points", "average_goals_for", "average_goals_against",
     "goal_difference"}

\* C20: the derived metrics are present only when a match was counted, with
\* points = 3 * wins + draws, goal_difference = goals_for - goals_against and
\* win_percentage = 100 * wins / counted to the nearest tenth; 2 wins and a
\* draw in 3 matches with goals 5-2 give 7 points, 66.7 percent and a goal
\* difference of 3 (percentages are in tenths).
C20_Derived ==
    pc = "counted" /\ input # <<>> =>
      LET counted == Cardinality(Counted)
          wins    == Cardinality(WithLetter(Counted, "W"))
          draws   == Cardinality(WithLetter(Counted, "D"))
          for     == output.goals_for
          against == output.goals_against
      IN  IF counted = 0 THEN DOMAIN output \cap Derived = {}
          ELSE /\ Derived \subseteq DOMAIN output
               /\ output.points = 3 * wins + draws
               /\ output.goal_difference = for - against
               /\ 2 * (output.win_percentage * counted - 1000 * wins) <= counted
               /\ 2 * (1000 * wins - output.win_percentage * counted) <= counted
               /\ (counted = 3 /\ wins = 2 /\ draws = 1 /\ for = 5 /\ against = 2) =>
                    /\ output.points = 7
                    /\ output.win_percentage = 667
                    /\ output.goal_difference = 3

\* The three matches of the example: a 2-1 home win, a 2-0 away win and a 1-1
\* away draw.
C20_Witness ==
    /\ pc = "counted"
    /\ Len(input) = 3
    /\ Cardinality(Counted) = 3
    /\ output.wins = 2
    /\ output.draws = 1
    /\ output.goals_for = 5
    /\ output.goals_against = 2
    /\ output.points = 7
    /\ output.win_percentage = 667
    /\ output.goal_difference = 3

----------------------------------------------------------------------------
----------------------------------------------------------------------------
(* The team-analysis view                                                   *)

\* What a requests.get of the view can come to: an exception (connection
\* error, timeout) or a response with a status code and a JSON body.
Raised == [raised |-> TRUE]

Answer(status_code, json) == [raised |-> FALSE, status_code |-> status_code, json |-> json]

\* `except Exception as e: return jsonify({'error': str(e)}), 500`
AnalysisExcept == [status |-> 500, body |-> [error |-> "exception"]]

\* {'active': [], 'upcoming': [], 'completed': []}
NoCompetitionAnalysis == [active |-> <<>>, upcoming |-> <<>>, completed |-> <<>>]

\* calls: the outcomes of the four requests in the order the view issues
\* them (team, recent, upcoming, all); the last is issued only after a 200
\* for the upcoming matches. The value is the Flask response: its status and
\* its body.
get_team_analysis(team_id, calls) ==
    IF calls.team.raised THEN AnalysisExcept
    ELSE IF calls.team.status_code # 200
    THEN [status |-> calls.team.status_code,
          body   |-> [error |-> "Failed to fetch team information"]]
    ELSE
    LET team_data == calls.team.json
        squad     == Get(team_data, "squad", <<>>)
        info      == [team_info      |-> team_data,
                      squad          |-> squad,
                      formation_data |-> analyze_squad_formation(squad)]
    IN  IF calls.recent.raised THEN AnalysisExcept
        ELSE
        LET recent_matches == Get(calls.recent.json, "matches", <<>>)
            recent ==
                IF calls.recent.status_code = 200
                THEN [recent_matches |-> recent_matches,
                      stats          |-> calculate_team_stats(recent_matches, team_id),
                      top_performers |-> get_top_performers(squad)]
                ELSE [recent_matches |-> <<>>, stats |-> <<>>, top_performers |-> <<>>]
        IN  IF calls.upcoming.raised THEN AnalysisExcept
            ELSE IF calls.upcoming.status_code # 200
            THEN [status |-> 200,
                  body   |-> info @@ recent @@
                             [upcoming_matches     |-> <<>>,
                              competition_analysis |-> NoCompetitionAnalysis]]
            ELSE IF calls.all.raised THEN AnalysisExcept
            ELSE [status |-> 200,
                  body   |-> info @@ recent @@
                             [upcoming_matches     |->
                                  Get(calls.upcoming.json, "matches", <<>>),
                              competition_analysis |->
                                  IF calls.all.status_code = 200
                                  THEN analyze_team_competitions(
                                           Get(calls.all.json, "matches", <<>>))
                                  ELSE NoCompetitionAnalysis]]

----------------------------------------------------------------------------
(* The view on its own: one request for team 57 whose four upstream calls   *)
(* come to the outcomes of input.                                           *)

\* The outcomes of the four calls. Each can fail by an exception or by a 404,
\* 429 or 500 response; the team body comes without a squad and with squads
\* whose positions are spelt 'Defender', 'Midfielder', 'Attacker' or
\* 'Midfield', 'Centre-Back'; the match lists come filled and empty.
TestCalls ==
    LET failures == {Raised, Answer(404, <<>>), Answer(429, [message |-> "limit"]),
                     Answer(500, <<>>)}
        Fixed(day, status) ==
            [competition |-> [id |-> 2021, name |-> "Premier League"],
             utcDate     |-> <<day, 15, 0>>,
             status      |-> status]
    IN  [team     : failures \cup
                    {Answer(200, [name |-> "Arsenal", squad |-> Lineup(1, 4, 3, 3, 0)]),
                     Answer(200, [name |-> "Arsenal", squad |-> Lineup(1, 0, 2, 1, 0)]),
                     Answer(200, [name  |-> "Arsenal",
                                  squad |-> Block(2, <<1994, 1, 1>>) \o
                                            <<Member("A", <<"Centre", "-", "Back">>,
                                                     "England", <<1998, 3, 3>>)>>]),
                     Answer(200, [name |-> "Arsenal"])},
         recent   : failures \cup
                    {Answer(200, [matches |->
                                    <<Played(TRUE, Num(2), Num(1), "Premier League"),
                                      Played(FALSE, Num(1), Num(1), "FA Cup")>>]),
                     Answer(200, [matches |-> <<>>])},
         upcoming : failures \cup
                    {Answer(200, [matches |-> <<Fixed(today + 2, "SCHEDULED")>>])},
         all      : failures \cup
                    {Answer(200, [matches |-> <<Fixed(today - 1, "FINISHED"),
                                                Fixed(today + 2, "SCHEDULED")>>]),
                     Answer(200, <<>>)}]

AnalysisInit ==
    /\ pc = "analysis"
    /\ Idle
    /\ input \in TestCalls
    /\ output = NoOutput

TeamAnalysis ==
    /\ pc = "analysis"
    /\ output' = get_team_analysis(TeamId, input)
    /\ pc' = "analysed"
    /\ UNCHANGED <<mergerVars, scorerVars, input>>

SpecAnalysis == AnalysisInit /\ [][TeamAnalysis]_vars

----------------------------------------------------------------------------
(* Claims about the team-analysis view                                      *)

\* The call did not come to a 200 response.
Failed(call) == call.raised \/ call.status_code # 200

\* C21: the request fails only when the team-information call fails, and
\* then with the status code of the upstream response; when the call for the
\* recent matches fails the answer is a 200 with empty stats, and when the
\* call for the upcoming matches or the one for all matches fails it is a
\* 200 with empty competition lists.
C21_OnlyTeamInfoFatal ==
    pc = "analysed" =>
        /\ output.status # 200 <=> Failed(input.team)
        /\ (~input.team.raised /\ Failed(input.team))
               => output.status = input.team.status_code
        /\ (~Failed(input.team) /\ Failed(input.recent))
               => /\ output.status = 200
                  /\ output.body.stats = <<>>
        /\ (~Failed(input.team)
              /\ (Failed(input.upcoming) \/ Failed(input.all)))
               => /\ output.status = 200
                  /\ output.body.competition_analysis = NoCompetitionAnalysis

----------------------------------------------------------------------------
(* End-to-end claims about get_matches_today                                *)

\* What the end-to-end scenario promises of a finished request: the extended
\* search ran, the fallback provider was asked once for today-3 .. today+7,
\* no match is listed for today, and the future list is not empty and holds
\* only matches two days ahead, as does the list returned.
ScenarioOutcome ==
    /\ extended_search
    /\ ExtendedLog # <<>>
    /\ FallbackLog = <<Query("football-data.org", "", <<today - 3, today + 7>>)>>
    /\ today_matches = <<>>
    /\ future_matches # <<>>
    /\ \A i \in 1..Len(future_matches) :
          future_matches[i].enhanced_info.days_from_today = 2
    /\ response.kind = "ok"
    /\ Len(response.matches) = Len(future_matches)
    /\ \A i \in 1..Len(response.matches) :
          response.matches[i].enhanced_info.days_from_today = 2

\* C22 as stated: when the primary provider has no match for today and the
\* fallback provider returns the 6 matches dated today+2, the request runs
\* the extended search, queries the fallback with the extended range and
\* returns no match of today and a non-empty future list whose entries all
\* have days_from_today = 2.
C22_Scenario ==
    (pc = "done" /\ ~matches_found /\ fb_matches = SixFuture) => ScenarioOutcome

\* C22, amended: the same when the primary provider has no match for today
\* nor for any date the extended search probes.
C22_ScenarioPrimaryEmpty ==
    (pc = "done" /\ EspnPart(all_matches) = <<>> /\ fb_matches = SixFuture)
        => ScenarioOutcome

\* The scenario has run: 20 + 50 calls to the primary provider without a
\* single event, then the fallback's six matches, all of them returned.
C22_Witness ==
    /\ pc = "done"
    /\ nonEmpty = 0
    /\ Len(PrimaryLog) = 20
    /\ Len(ExtendedLog) = 50
    /\ fb_matches = SixFuture
    /\ Len(future_matches) = 6
    /\ response.total_matches = 6

\* C23: when the request ends, the recorded espn_api count is the number of
\* matches obtained from the primary provider, those of the extended search
\* included, the fallback count is the number of matches appended from the
\* fallback provider, and total_unique is the length of the list returned.
C23_SourceStats ==
    (pc = "done" /\ response.kind = "ok") =>
        /\ response.source_stats.espn_api = Len(EspnPart(all_matches))
        /\ response.source_stats.football_data_fallback = Len(fb_matches)
        /\ response.source_stats.total_unique = Len(response.matches)

\* The step of Classify as far as pc shows it.
Returns == pc = "classify" /\ pc' = "done"

\* The request under a scheduler that lets it run: every provider call
\* carries a timeout and the handler is sequential, so a call that is due is
\* eventually made and answered, and the classification that is due
\* eventually returns.
SpecLive ==
    /\ Init
    /\ [][Next]_vars
    /\ WF_vars(PrimaryQuery \/ ExtendedQuery \/ FallbackQuery)
    /\ WF_pc(Returns)

\* No (league, date) pair and no fallback range is queried twice.
NoRepeatedCall ==
    \A i, j \in 1..Len(queries) : i # j => queries[i] # queries[j]

\* C24: every request terminates, and on the way it queries each
\* (league, date) pair at most once and the fallback provider at most once,
\* at most 20 + 10 * 5 + 1 = 71 calls in all, whatever the calls return.
C24_BoundedCalls ==
    /\ [](NoRepeatedCall
          /\ Len(FallbackLog) <= 1
          /\ Len(PrimaryLog) <= 20
          /\ Len(ExtendedLog) <= 10 * 5
          /\ Len(queries) <= 20 + 10 * 5 + 1)
    /\ <>(pc = "done")

\* A request that issued all of its 71 calls and ended.
C24_Witness ==
    /\ pc = "done"
    /\ Len(PrimaryLog) = 20
    /\ Len(ExtendedLog) = 10 * 5
    /\ Len(FallbackLog) = 1
    /\ Len(queries) = 71

\* C25: every match returned names its provider in enhanced_info.source:
\* "ESPN" for a match the normalizer produced from a primary-provider event,
\* "football-data.org" for a match appended from the fallback provider.
C25_SourceTag ==
    (pc = "done" /\ response.kind = "ok") =>
        \A i \in 1..Len(response.matches) :
            LET match == response.matches[i]
            IN  match.enhanced_info.source =
                    IF match.id[1] = "espn" THEN "ESPN" ELSE "football-data.org"

\* C26: in a team-analysis response the defender, midfielder and attacker
\* counts behind the formation equal the sizes of the Defenders, Midfielders
\* and Attackers groups reported as squad_depth for the same squad.
C26_SameComposition ==
    (/\ pc = "analysed"
     /\ output.status = 200
     /\ output.body.squad # <<>>
     /\ ~Failed(input.recent)) =>
        LET count       == output.body.formation_data.count
            squad_depth == output.body.top_performers.squad_analytics.squad_depth
        IN  /\ count.defenders = squad_depth.defenders
            /\ count.midfielders = squad_depth.midfielders
            /\ count.attackers = squad_depth.attackers

----------------------------------------------------------------------------
(* One primary-provider event on its way through get_matches_today: the     *)
(* scoreboard of any configured league answers 200 with the event; it is    *)
(* normalized under the league's name and then classified and scored.       *)

LeagueInit ==
    /\ pc = "league"
    /\ Idle
    /\ input \in [league : 1..Len(espn_leagues), event : TestEvents]
    /\ output = NoOutput

\* output: the enhanced matches of today_matches + future_matches
LeagueMatch ==
    /\ pc = "league"
    /\ LET matches == ConvertAll(<<input.event>>, espn_leagues[input.league].name)
       IN  output' = Categorize(matches, TRUE) \o Categorize(matches, FALSE)
    /\ pc' = "listed"
    /\ UNCHANGED <<mergerVars, scorerVars, input>>

SpecLeague == LeagueInit /\ [][LeagueMatch]_vars

\* C27: the competition name given to a match of any configured league has
\* an entry of its own in competition_scores, so the competition part of its
\* importance is never the default of 10 for an unknown competition.
C27_LeaguesHaveTier ==
    pc = "listed" =>
        \A i \in 1..Len(output) :
            /\ output[i].competition = espn_leagues[input.league].name
            /\ output[i].competition \in DOMAIN competition_scores

====
